---- MODULE Spec2Model ----
(***************************************************************************)
(* A model of the agent orchestration engine of projectx:                  *)
(*   - the history codec   (backend/app/routes/messaging.py)               *)
(*   - the path validator  (backend/app/tools/path_validator.py)           *)
(*   - the background-process registry (backend/app/tools/agent_tools.py)  *)
(*   - the turn endpoint, the agent step loop and the tool wrappers        *)
(*     (backend/app/routes/messaging.py, messaging_tools.py)               *)
(*   - the connections of the endpoint, turn by turn                       *)
(*   - the file and command tools and the history compactor, as functions  *)
(* Each part has its own specification over the shared variables; the      *)
(* variables of the other parts stay at their idle values.                 *)
(***************************************************************************)
EXTENDS Integers, Sequences, FiniteSets, TLC

VARIABLES
    \* ---- history codec
    dec_pc,        \* "ready" | "done"
    dec_rows,      \* the rows handed to convert_db_messages_to_history
    dec_out,       \* the history it returned
    \* ---- path validator
    val_pc,        \* "ready" | "done"
    val_links,     \* the symbolic links of the filesystem: a set of [at, to]
    val_in,        \* the file_path handed to validate: [absolute, parts]
    val_res,       \* what validate did: [ok, path, exc]
    \* ---- background-process registry
    registry,      \* _background_processes: process_id -> pid, 0 when absent
    procs,         \* the child processes launched: pid -> "none" | "running" | "exited"
    next_pid,      \* the pid the next launched child gets
    verified,      \* the pids a start saw alive at its post-launch check
    call_pc,       \* per caller: where its start/stop call is suspended
    call_id,       \* per caller: the process_id argument of the call
    call_proc,     \* per caller: the call's local variable `process` (a pid)
    call_res,      \* how the call that returned last ended: [caller, op, id, raised, inner, listing]
    \* ---- turn endpoint: the connection
    family,        \* the module whose tool wrappers are registered on the agent
    active_connections, \* manager.active_connections: the registered websockets
    pc,            \* where websocket_messaging_endpoint is suspended
    sent,          \* the frames sent on the websocket since the last frame was received
    handled,       \* what the except clauses of the endpoint did: [by, error_sent, rollback, conversation_id]
    \* ---- turn endpoint: the database
    conversations, \* committed Conversation rows (their ids)
    messages,      \* committed Message rows, in insertion order; a row's id is its index
    pending,       \* the uncommitted change of the session: <<>> or <<[id, content, parts]>>
    \* ---- turn endpoint: locals of the handler
    conversation_id, \* 0 until a frame named or created a conversation
    user_content,  \* `content`: the prompt of the frame
    agent_message, \* id of the AGENT row of the turn; 0 while the local is unbound
    message_history, \* the decoded history handed to the agent
    \* ---- turn endpoint: the agent run
    next_node,     \* run.next_node
    model_response, \* the parts of the response held by the current CallToolsNode
    step_number,
    all_parts_for_db,
    sent_parts,    \* the keys of the parts the step loop has seen
    requests,      \* model requests made in this run
    retries,       \* consecutive calls of the current tool the agent turned down for a retry
    tool_calls_count,
    tool_pc,       \* per tool call of the response: "none" | "started" | "done" | "retry" | "raised" | "rejected"
    tool_result,   \* how the last wrapper invocation ended
    io,            \* path arguments the underlying tools did I/O with: [tool, arg, value, validated]
    final_output,
    \* ---- connections: one run of websocket_messaging_endpoint per connection
    conn_pc,       \* per connection: "accept" | "receive" | "turn" | "closed" | "disconnected"
    conn_turn,     \* per connection: the number of frames it has read
    conn_sent,     \* per connection: the frames sent on it, each [turn, type]
    \* ---- a tool or the compactor called as a function
    fn_pc,         \* "ready" | "done" | "repeated"
    fn_args,       \* the arguments of the call
    fn_ret         \* what the call returned or raised, and what it left behind

codecVars == <<dec_pc, dec_rows, dec_out>>
pathVars == <<val_pc, val_links, val_in, val_res>>
procVars == <<registry, procs, next_pid, verified, call_pc, call_id, call_proc, call_res>>

connVars == <<family, active_connections, pc, sent, handled>>
storeVars == <<conversations, messages, pending>>
localVars == <<conversation_id, user_content, agent_message, message_history>>
runVars == <<next_node, model_response, step_number, all_parts_for_db, sent_parts, requests, retries,
             tool_calls_count, tool_pc, tool_result, io, final_output>>
turnVars == <<connVars, storeVars, localVars, runVars>>
connsVars == <<conn_pc, conn_turn, conn_sent>>
fnVars == <<fn_pc, fn_args, fn_ret>>

vars == <<dec_pc, dec_rows, dec_out, val_pc, val_links, val_in, val_res,
          registry, procs, next_pid, verified, call_pc, call_id, call_proc, call_res,
          family, active_connections, pc, sent, handled, conversations, messages, pending,
          conversation_id, user_content, agent_message, message_history,
          next_node, model_response, step_number, all_parts_for_db, sent_parts, requests, retries,
          tool_calls_count, tool_pc, tool_result, io, final_output,
          conn_pc, conn_turn, conn_sent, fn_pc, fn_args, fn_ret>>

\* Python's None
None == "None"

(***************************************************************************)
(* Generic helpers                                                         *)
(***************************************************************************)
RECURSIVE SeqsUpTo(_, _)
SeqsUpTo(S, n) ==
    IF n = 0 THEN {<<>>}
    ELSE LET shorter == SeqsUpTo(S, n - 1)
         IN  shorter \cup {Append(s, x) : s \in {t \in shorter : Len(t) = n - 1}, x \in S}

Range(s) == {s[i] : i \in DOMAIN s}

MapSeq(F(_), s) == [i \in DOMAIN s |-> F(s[i])]

(***************************************************************************)
(* HISTORY CODEC: convert_db_messages_to_history                           *)
(***************************************************************************)
\* Largest number of part dicts in a persisted parts payload.
MaxParts == 3

\* A part, persisted (a dict) or rebuilt (a pydantic_ai part object): one record
\* shape for all kinds, absent fields are None.
Part(kind, content, id, provider, sig, tool, args, tcid) ==
    [part_kind |-> kind, content |-> content, id |-> id,
     provider_name |-> provider, signature |-> sig,
     tool_name |-> tool, args |-> args, tool_call_id |-> tcid]

TextPart(content) == Part("text", content, None, None, None, None, None, None)
ThinkingPart(content) == Part("thinking", content, None, None, None, None, None, None)
ToolCallPart(tool, args, tcid) == Part("tool-call", None, None, None, None, tool, args, tcid)
ToolReturnPart(tool, content, tcid) == Part("tool-return", content, None, None, None, tool, None, tcid)
UserPromptPart(content) == Part("user-prompt", content, None, None, None, None, None, None)

ModelRequest(parts) == [kind |-> "request", parts |-> parts]
ModelResponse(parts) == [kind |-> "response", parts |-> parts]

\* The parts column of a Message row: NULL, or the payload {parts, model_name,
\* timestamp}.
NoParts == [present |-> FALSE, parts |-> <<>>, model_name |-> None, timestamp |-> None]
Payload(ps, model, ts) == [present |-> TRUE, parts |-> ps, model_name |-> model, timestamp |-> ts]

\* A Message row.
Row(id, conv, role, content, parts) ==
    [id |-> id, conversation_id |-> conv, role |-> role, content |-> content, parts |-> parts]

\* messaging.py:182-205: the part object rebuilt from one persisted dict; a dict of
\* another kind rebuilds nothing.
RebuildPart(d) ==
    CASE d.part_kind = "text"        -> <<TextPart(d.content)>>
      [] d.part_kind = "thinking"    -> <<ThinkingPart(d.content)>>
      [] d.part_kind = "tool-call"   -> <<ToolCallPart(d.tool_name, d.args, d.tool_call_id)>>
      [] d.part_kind = "tool-return" -> <<ToolReturnPart(d.tool_name, d.content, d.tool_call_id)>>
      [] OTHER                       -> <<>>

RECURSIVE RebuildParts(_)
RebuildParts(ds) ==
    IF ds = <<>> THEN <<>> ELSE RebuildPart(Head(ds)) \o RebuildParts(Tail(ds))

\* messaging.py:189-191, 198-200: ids are collected only when truthy.
Truthy(v) == v # None /\ v # ""

ToolCallIds(ds) == {d.tool_call_id : d \in {e \in Range(ds) : e.part_kind = "tool-call" /\ Truthy(e.tool_call_id)}}
ToolReturnIds(ds) == {d.tool_call_id : d \in {e \in Range(ds) : e.part_kind = "tool-return" /\ Truthy(e.tool_call_id)}}

\* messaging.py:208
UnprocessedCallsMissingFilter(ds) == {}
UnprocessedCalls(ds) == ToolCallIds(ds) \ ToolReturnIds(ds)

\* messaging.py:222-225
FilterParts(parts, unprocessed) ==
    SelectSeq(parts, LAMBDA p : ~(p.part_kind = "tool-call" /\ p.tool_call_id \in unprocessed))

\* messaging.py:170-235: the messages one row contributes to the history.
ConvertRow(msg) ==
    IF msg.role = "USER" THEN <<ModelRequest(<<UserPromptPart(msg.content)>>)>>
    ELSE IF msg.role = "AGENT" THEN
        IF msg.parts.present THEN
            LET parts == FilterParts(RebuildParts(msg.parts.parts), UnprocessedCalls(msg.parts.parts))
            IN  IF parts # <<>> THEN <<ModelResponse(parts)>>
                ELSE <<ModelResponse(<<TextPart(msg.content)>>)>>
        ELSE <<ModelResponse(<<TextPart(msg.content)>>)>>
    ELSE <<>>

RECURSIVE convert_db_messages_to_history(_)
convert_db_messages_to_history(db_messages) ==
    IF db_messages = <<>> THEN <<>>
    ELSE ConvertRow(Head(db_messages)) \o convert_db_messages_to_history(Tail(db_messages))

\* The persisted part dicts the codec is exercised on: the four kinds of the data
\* model, tool call ids as the agent library generates them (non-empty strings).
CodecDicts ==
    {Part("text", "t", i, None, None, None, None, None) : i \in {None, "i1"}}
    \cup {Part("thinking", "k", None, None, s, None, None, None) : s \in {None, "sg"}}
    \cup {Part("tool-call", None, None, None, None, "read_file_tool", "{}", c) : c \in {"x", "y"}}
    \cup {Part("tool-return", "ok", None, None, None, "read_file_tool", None, c) : c \in {"x", "y"}}

CodecRows ==
    {Row(1, 1, "AGENT", c, p) : c \in {"", "final"},
        p \in {Payload(ps, "m", "ts") : ps \in SeqsUpTo(CodecDicts, MaxParts)} \cup {NoParts}}
    \cup {Row(1, 1, "USER", "hello", NoParts)}

CodecIdle == dec_pc = "idle" /\ dec_rows = <<>> /\ dec_out = <<>>

PathIdle == val_pc = "idle" /\ val_links = {} /\ val_in = <<>> /\ val_res = <<>>

\* Children launched over the life of the server.
MaxProcs == 2

\* The callers of the registry: tool calls of two connections.
Callers == {"c1", "c2"}
\* The process_id arguments.
ProcIds == {"p1", "p2"}
Pids == 1..MaxProcs

NoResult == [caller |-> None, op |-> "none", id |-> None, raised |-> "none", inner |-> "none", listing |-> {}]

\* agent_tools.py:445: the registry starts empty
ProcStart ==
    /\ registry = [i \in ProcIds |-> 0]
    /\ procs = [p \in Pids |-> "none"]
    /\ next_pid = 1
    /\ verified = {}
    /\ call_pc = [c \in Callers |-> "idle"]
    /\ call_id = [c \in Callers |-> None]
    /\ call_proc = [c \in Callers |-> 0]
    /\ call_res = NoResult

ProcIdle == ProcStart

NoToolResult == [tool |-> None, raised |-> "none", propagated |-> "none", returned |-> "none", status |-> None]

\* The locals of the handler and of the agent run before a turn set them
\* (messaging.py:755-764).
RunStart ==
    /\ next_node = None
    /\ model_response = <<>>
    /\ step_number = 0
    /\ all_parts_for_db = <<>>
    /\ sent_parts = {}
    /\ requests = 0
    /\ retries = 0
    /\ tool_calls_count = 0
    /\ tool_pc = <<>>
    /\ tool_result = NoToolResult
    /\ io = {}
    /\ final_output = ""

NoHandled == [by |-> "none", error_sent |-> FALSE, rollback |-> FALSE, conversation_id |-> 0]

\* No connection accepted, an empty database.
TurnStart ==
    /\ active_connections = {}
    /\ handled = NoHandled
    /\ sent = <<>>
    /\ conversations = {}
    /\ messages = <<>>
    /\ pending = <<>>
    /\ conversation_id = 0
    /\ user_content = None
    /\ agent_message = 0
    /\ message_history = <<>>
    /\ RunStart

TurnIdle == family = None /\ pc = "idle" /\ TurnStart

ConnsIdle == conn_pc = <<>> /\ conn_turn = <<>> /\ conn_sent = <<>>

FnIdle == fn_pc = "idle" /\ fn_args = <<>> /\ fn_ret = <<>>

CodecInit ==
    /\ PathIdle
    /\ ProcIdle
    /\ TurnIdle
    /\ ConnsIdle
    /\ FnIdle
    /\ dec_pc = "ready"
    /\ \E r \in CodecRows : dec_rows = <<r>>
    /\ dec_out = <<>>

DecodeHistory ==
    /\ dec_pc = "ready"
    /\ dec_out' = convert_db_messages_to_history(dec_rows)
    /\ dec_pc' = "done"
    /\ UNCHANGED <<dec_rows, pathVars, procVars, turnVars, connsVars, fnVars>>

CodecNext == DecodeHistory

SpecCodec == CodecInit /\ [][CodecNext]_vars


(***************************************************************************)
(* PATH VALIDATOR: PathValidator.validate                                  *)
(***************************************************************************)
\* Longest file_path (in components) handed to validate.
MaxPathLen == 5
\* Symbolic links followed while resolving one path before resolution fails
\* (a symlink loop).
MaxSymlinkHops == 6

\* A path is the sequence of its components below "/"; <<>> is "/" itself.
\* "r" is the sandbox root, "r2" a sibling whose name starts with the root's name,
\* "s" a directory outside the sandbox (the server's working directory), "l" the
\* name symbolic links carry.
Names == {"r", "r2", "s", "l"}
Components == Names \cup {".."}
NameChars(n) ==
    CASE n = "r" -> <<"r">> [] n = "r2" -> <<"r", "2">> [] n = "s" -> <<"s">>
      [] n = "l" -> <<"l">> [] OTHER -> <<".", ".">>

RECURSIVE PathString(_)
PathString(p) ==
    IF p = <<>> THEN <<>> ELSE <<"/">> \o NameChars(Head(p)) \o PathString(Tail(p))

\* path_validator.py:46-48: the allowed roots, resolved; messaging.py:31: the sandbox
AllowedRoots == << <<"r">> >>
\* Path.cwd()
Cwd == <<"s">>

Parent(p) == IF p = <<>> THEN <<>> ELSE SubSeq(p, 1, Len(p) - 1)

LinkAt(links, loc) == \E k \in links : k.at = loc
LinkTarget(links, loc) == (CHOOSE k \in links : k.at = loc).to

\* Path.resolve(): the components are taken left to right from the resolved prefix
\* cur; ".." is the parent of the resolved prefix, a symbolic link is replaced by
\* its (absolute) target. [ok |-> FALSE] is the symlink-loop failure.
RECURSIVE ResolveFrom(_, _, _, _)
ResolveFrom(links, cur, rest, hops) ==
    IF rest = <<>> THEN [ok |-> TRUE, path |-> cur]
    ELSE IF Head(rest) = ".." THEN ResolveFrom(links, Parent(cur), Tail(rest), hops)
    ELSE LET loc == Append(cur, Head(rest))
         IN  IF LinkAt(links, loc)
             THEN IF hops = 0 THEN [ok |-> FALSE, path |-> <<>>]
                  ELSE ResolveFrom(links, <<>>, LinkTarget(links, loc) \o Tail(rest), hops - 1)
             ELSE ResolveFrom(links, loc, Tail(rest), hops)

Resolve(links, p) == ResolveFrom(links, <<>>, p, MaxSymlinkHops)

\* Path.is_symlink(): the last component, looked up in its resolved parent, is a link
IsSymlink(links, p) ==
    /\ p # <<>>
    /\ p[Len(p)] # ".."
    /\ LET par == Resolve(links, Parent(p))
       IN  par.ok /\ LinkAt(links, Append(par.path, p[Len(p)]))

\* str.startswith on the path strings
RECURSIVE IsCharPrefix(_, _)
IsCharPrefix(a, b) ==
    a = <<>> \/ (b # <<>> /\ Head(a) = Head(b) /\ IsCharPrefix(Tail(a), Tail(b)))

IsRelativeToStartswith(path, root) == IsCharPrefix(PathString(root), PathString(path))
\* PurePath.is_relative_to: root's components are the first components of path
IsRelativeTo(path, root) ==
    Len(root) <= Len(path) /\ SubSeq(path, 1, Len(root)) = root

\* path_validator.py:113-138
IsWithinAllowedRoots(path) ==
    \E i \in DOMAIN AllowedRoots : IsRelativeTo(path, AllowedRoots[i])

\* path_validator.py:161-174: the first allowed root the (unresolved) path is under
MatchingRoots(path) == {i \in DOMAIN AllowedRoots : IsRelativeTo(path, AllowedRoots[i])}

\* path_validator.py:188-207: the walk raises at component i
SymlinkEscapesAt(links, path, root, i) ==
    LET current == root \o SubSeq(path, Len(root) + 1, Len(root) + i)
    IN  /\ IsSymlink(links, current)
        /\ LET target == Resolve(links, current)
           IN  ~target.ok \/ ~IsWithinAllowedRoots(target.path)

\* path_validator.py:140-211: "none", or the exception raised
CheckSymlinkChain(links, path) ==
    IF MatchingRoots(path) = {} THEN "none"
    ELSE LET root == AllowedRoots[CHOOSE i \in MatchingRoots(path) : \A j \in MatchingRoots(path) : i <= j]
         IN  IF \E i \in 1..(Len(path) - Len(root)) : SymlinkEscapesAt(links, path, root, i)
             THEN "ValueError" ELSE "none"

\* path_validator.py:102-106
OriginalPath(file_path) == IF file_path.absolute THEN file_path.parts ELSE Cwd \o file_path.parts

Accepted(path) == [ok |-> TRUE, path |-> path, exc |-> "none"]
Rejected(exc) == [ok |-> FALSE, path |-> <<>>, exc |-> exc]

\* path_validator.py:87-90: a failed resolution is re-raised as ValueError
ResolveFailureUnconverted == Rejected("RuntimeError")
ResolveFailure == Rejected("ValueError")

\* path_validator.py:50-111
Validate(links, file_path) ==
    LET resolved == Resolve(links, OriginalPath(file_path))
    IN  IF ~resolved.ok THEN ResolveFailure
        ELSE IF ~IsWithinAllowedRoots(resolved.path) THEN Rejected("ValueError")
        ELSE IF CheckSymlinkChain(links, OriginalPath(file_path)) # "none" THEN Rejected("ValueError")
        ELSE Accepted(resolved.path)

\* The filesystems validate is exercised on: at most one link inside the sandbox
\* (/r/l, leaving the sandbox, staying in it, or looping) and at most one above it
\* (/l, to the sibling or to the sandbox itself).
Link(at, to) == [at |-> at, to |-> to]
LinksInside == {{}, {Link(<<"r", "l">>, <<"r2">>)}, {Link(<<"r", "l">>, <<"r", "s">>)},
                {Link(<<"r", "l">>, <<"r", "l">>)}}
LinksAbove == {{}, {Link(<<"l">>, <<"r2">>)}, {Link(<<"l">>, <<"r">>)}}
Filesystems == {a \cup b : a \in LinksInside, b \in LinksAbove}

FilePaths == [absolute : BOOLEAN, parts : SeqsUpTo(Components, MaxPathLen)]

PathInit ==
    /\ CodecIdle
    /\ ProcIdle
    /\ TurnIdle
    /\ ConnsIdle
    /\ FnIdle
    /\ val_pc = "ready"
    /\ val_links \in Filesystems
    /\ val_in \in FilePaths
    /\ val_res = <<>>

ValidatePath ==
    /\ val_pc = "ready"
    /\ val_res' = Validate(val_links, val_in)
    /\ val_pc' = "done"
    /\ UNCHANGED <<val_links, val_in, codecVars, procVars, turnVars, connsVars, fnVars>>

PathNext == ValidatePath

SpecPath == PathInit /\ [][PathNext]_vars


(***************************************************************************)
(* BACKGROUND-PROCESS REGISTRY: start/stop/list_background_process(es)     *)
(* The calls of different connections interleave at their awaits.          *)
(***************************************************************************)
ProcFrame == UNCHANGED <<codecVars, pathVars, turnVars, connsVars, fnVars>>

Result(op, id, raised, inner) ==
    [caller |-> None, op |-> op, id |-> id, raised |-> raised, inner |-> inner, listing |-> {}]

Return(c, res) ==
    /\ call_res' = [res EXCEPT !.caller = c]
    /\ call_pc' = [call_pc EXCEPT ![c] = "idle"]
    /\ call_id' = [call_id EXCEPT ![c] = None]
    /\ call_proc' = [call_proc EXCEPT ![c] = 0]

\* agent_tools.py:482: the entry is stored as soon as the child is launched
StoreEntry(id, pid) == registry' = [registry EXCEPT ![id] = pid]

\* agent_tools.py:472-485: launch the child, store it, sleep 2 s
StartLaunch(c, id) ==
    /\ ProcFrame
    /\ call_pc[c] = "idle"
    /\ next_pid <= MaxProcs
    /\ procs' = [procs EXCEPT ![next_pid] = "running"]
    /\ StoreEntry(id, next_pid)
    /\ next_pid' = next_pid + 1
    /\ call_pc' = [call_pc EXCEPT ![c] = "start_sleep"]
    /\ call_id' = [call_id EXCEPT ![c] = id]
    /\ call_proc' = [call_proc EXCEPT ![c] = next_pid]
    /\ UNCHANGED <<verified, call_res>>

\* agent_tools.py:472-479, 517-518: create_subprocess_shell raises (no such cwd)
StartSpawnFails(c, id) ==
    /\ ProcFrame
    /\ call_pc[c] = "idle"
    /\ Return(c, Result("start", id, "Exception", "OSError"))
    /\ UNCHANGED <<registry, procs, next_pid, verified>>

\* The child ends, on its own or because of a signal: process.returncode is set.
ChildExit(pid) ==
    /\ ProcFrame
    /\ procs[pid] = "running"
    /\ procs' = [procs EXCEPT ![pid] = "exited"]
    /\ UNCHANGED <<registry, next_pid, verified, call_pc, call_id, call_proc, call_res>>

\* agent_tools.py:494-501
IsTransient(out) == out = "eaddrinuse"

\* agent_tools.py:487-518: the liveness check after the sleep; out is what
\* communicate() reads from an exited child. Both raises sit in the try whose
\* handler re-raises Exception.
StartCheck(c, out) ==
    /\ ProcFrame
    /\ call_pc[c] = "start_sleep"
    /\ IF procs[call_proc[c]] = "exited"
       THEN /\ Return(c, Result("start", call_id[c], "Exception",
                                IF IsTransient(out) THEN "ModelRetry" ELSE "Exception"))
            /\ UNCHANGED verified
       ELSE /\ out = "other"
            /\ Return(c, Result("start", call_id[c], "none", "none"))
            /\ verified' = verified \cup {call_proc[c]}
    /\ UNCHANGED <<registry, procs, next_pid>>

\* agent_tools.py:532-551: lookup; already exited: delete and return; else
\* terminate() and wait up to 5 s
StopBegin(c, id) ==
    /\ ProcFrame
    /\ call_pc[c] = "idle"
    /\ IF registry[id] = 0
       THEN /\ Return(c, Result("stop", id, "ValueError", "none"))
            /\ UNCHANGED <<registry, procs>>
       ELSE IF procs[registry[id]] = "exited"
       THEN /\ registry' = [registry EXCEPT ![id] = 0]
            /\ Return(c, Result("stop", id, "none", "none"))
            /\ UNCHANGED procs
       ELSE /\ call_pc' = [call_pc EXCEPT ![c] = "stop_term"]
            /\ UNCHANGED procs
            /\ call_id' = [call_id EXCEPT ![c] = id]
            /\ call_proc' = [call_proc EXCEPT ![c] = registry[id]]
            /\ UNCHANGED <<registry, call_res>>
    /\ UNCHANGED <<next_pid, verified>>

DeleteEntryKeeps(c) ==
    /\ Return(c, Result("stop", call_id[c], "none", "none"))
    /\ UNCHANGED registry

\* a removal that empties the registry
DeleteEntryClears(c) ==
    /\ Return(c, Result("stop", call_id[c], "none", "none"))
    /\ registry' = [i \in ProcIds |-> 0]

\* agent_tools.py:566: del _background_processes[process_id], a KeyError when the
\* key is gone
DeleteEntry(c) ==
    IF registry[call_id[c]] = 0
    THEN /\ Return(c, Result("stop", call_id[c], "KeyError", "none"))
         /\ UNCHANGED registry
    ELSE /\ registry' = [registry EXCEPT ![call_id[c]] = 0]
         /\ Return(c, Result("stop", call_id[c], "none", "none"))

\* agent_tools.py:552-556: the 5 s grace after terminate; on timeout, kill
StopTermWait(c) ==
    /\ ProcFrame
    /\ call_pc[c] = "stop_term"
    /\ IF procs[call_proc[c]] = "exited"
       THEN DeleteEntry(c)
       ELSE /\ call_pc' = [call_pc EXCEPT ![c] = "stop_kill"]
            /\ UNCHANGED <<registry, call_id, call_proc, call_res>>
    /\ UNCHANGED <<procs, next_pid, verified>>

\* agent_tools.py:557-567: the 5 s grace after kill; on timeout, ModelRetry
StopKillWait(c) ==
    /\ ProcFrame
    /\ call_pc[c] = "stop_kill"
    /\ IF procs[call_proc[c]] = "exited"
       THEN DeleteEntry(c)
       ELSE Return(c, Result("stop", call_id[c], "ModelRetry", "none")) /\ UNCHANGED registry
    /\ UNCHANGED <<procs, next_pid, verified>>

\* agent_tools.py:570-586: the process ids the listing mentions
Listing == {i \in ProcIds : registry[i] # 0}

ListProcesses(c) ==
    /\ ProcFrame
    /\ call_pc[c] = "idle"
    /\ Return(c, [Result("list", None, "none", "none") EXCEPT !.listing = Listing])
    /\ UNCHANGED <<registry, procs, next_pid, verified>>

ProcInit == CodecIdle /\ PathIdle /\ TurnIdle /\ ConnsIdle /\ FnIdle /\ ProcStart

ProcNext ==
    \/ \E c \in Callers, id \in ProcIds : StartLaunch(c, id)
    \/ \E c \in Callers, id \in ProcIds : StartSpawnFails(c, id)
    \/ \E pid \in Pids : ChildExit(pid)
    \/ \E c \in Callers, out \in {"eaddrinuse", "other"} : StartCheck(c, out)
    \/ \E c \in Callers, id \in ProcIds : StopBegin(c, id)
    \/ \E c \in Callers : StopTermWait(c)
    \/ \E c \in Callers : StopKillWait(c)
    \/ \E c \in Callers : ListProcesses(c)

SpecProc == ProcInit /\ [][ProcNext]_vars

(***************************************************************************)
(* TURN ENDPOINT: websocket_messaging_endpoint, the agent step loop and    *)
(* the tool wrappers                                                       *)
(***************************************************************************)
\* Message rows the database holds at most; a frame that would start a turn is
\* taken only while two more rows fit.
MaxRows == 2
\* Model requests of one agent run.
MaxModelRequests == 2

\* The websocket of the connection.
WS == "ws"

\* The two modules that define the agent's tool wrappers: messaging.py registers
\* its own on messagingAgent; those of messaging_tools.py are registered by
\* register_all_tools on the same agent, with the send_tool_update of
\* messaging.py handed to initialize_tools.
Families == {"messaging", "messaging_tools"}

FileTools == {"read_file_tool", "write_file_tool", "edit_file_tool", "file_exists_tool"}
DirTools == {"list_files_tool", "search_in_files_tool"}
CwdTools == {"run_command_tool", "run_git_command_tool"}
DevServerTools == {"start_dev_server_tool", "stop_dev_server_tool", "list_dev_servers_tool"}

\* The wrappers each module registers.
ToolNames(fam) ==
    FileTools \cup DirTools \cup CwdTools \cup {"run_tests_tool", "get_working_directory_tool"}
    \cup (IF fam = "messaging_tools" THEN DevServerTools ELSE {})

\* The path-valued parameters of a wrapper.
PathArgs(tool) ==
    CASE tool \in FileTools -> {"file_path"}
      [] tool \in DirTools -> {"directory"}
      [] tool \in CwdTools \cup {"start_dev_server_tool"} -> {"cwd"}
      [] tool = "run_tests_tool" -> {"test_path", "cwd"}
      [] OTHER -> {}

\* The parameters a wrapper hands to the validator before it calls the tool:
\* run_tests_tool validates cwd and passes test_path on as it came.
ValidatedArgs(tool) == PathArgs(tool) \ {"test_path"}

\* The exception class of a wrapper's except clause; get_working_directory_tool
\* has no try.
Catches(fam, tool) ==
    IF tool = "get_working_directory_tool" THEN "none"
    ELSE IF fam = "messaging" THEN "ValueError" ELSE "Exception"

\* How a wrapper's except clause sends tool_complete:
\*   "result"  the frame carries the error text as result and no status
\*   "status"  the frame carries status error and error_message
\*   "kwargs"  send_tool_update is called with status= and error_message=,
\*             keywords it does not take
\*   "error"   the frame carries the error text under the key error and no status
ErrorComplete(fam, tool) ==
    IF fam = "messaging" THEN "result"
    ELSE IF tool \in {"read_file_tool", "list_files_tool", "run_command_tool"} THEN "kwargs"
    ELSE IF tool \in DevServerTools THEN "error"
    ELSE "status"

\* The status of the tool_complete frame of a call that succeeded.
SuccessStatus(fam, tool) ==
    IF fam = "messaging_tools"
       /\ tool \notin DevServerTools \cup {"read_file_tool", "list_files_tool", "run_command_tool",
                                           "get_working_directory_tool"}
    THEN "success" ELSE None

\* What the underlying tool of a wrapper can raise.
Raises(tool) ==
    CASE tool \in {"file_exists_tool", "get_working_directory_tool", "list_dev_servers_tool"} -> {}
      [] tool = "stop_dev_server_tool" -> {"ValueError", "ModelRetry"}
      [] OTHER -> {"Exception"}

\* The arguments of a tool call as the model sends them: per path parameter
\*   "absent"   the wrapper has no such parameter
\*   "default"  the caller left it out (cwd None, directory ".")
\*   "inside"   a path the validator accepts
\*   "outside"  a path the validator rejects
Args(json, file_path, directory, cwd, test_path) ==
    [json |-> json, file_path |-> file_path, directory |-> directory, cwd |-> cwd, test_path |-> test_path]

PathArgNames == {"file_path", "directory", "cwd", "test_path"}

ArgsTable ==
    { Args("{}", "absent", "absent", "absent", "absent"),
      Args("{file_path: src/a.py}", "inside", "absent", "absent", "absent"),
      Args("{file_path: ../x}", "outside", "absent", "absent", "absent"),
      Args("{directory: .}", "absent", "default", "absent", "absent"),
      Args("{directory: src}", "absent", "inside", "absent", "absent"),
      Args("{directory: ../x}", "absent", "outside", "absent", "absent"),
      Args("{cwd: None}", "absent", "absent", "default", "absent"),
      Args("{cwd: src}", "absent", "absent", "inside", "absent"),
      Args("{cwd: ../x}", "absent", "absent", "outside", "absent"),
      Args("{test_path: tests/, cwd: None}", "absent", "absent", "default", "inside"),
      Args("{test_path: tests/, cwd: src}", "absent", "absent", "inside", "inside"),
      Args("{test_path: tests/, cwd: ../x}", "absent", "absent", "outside", "inside"),
      Args("{test_path: ../x, cwd: None}", "absent", "absent", "default", "outside"),
      Args("{test_path: ../x, cwd: src}", "absent", "absent", "inside", "outside"),
      Args("{test_path: ../x, cwd: ../x}", "absent", "absent", "outside", "outside") }

ArgsOf(json) == CHOOSE a \in ArgsTable : a.json = json

ArgsFor(tool) ==
    {a.json : a \in {b \in ArgsTable : {n \in PathArgNames : b[n] # "absent"} = PathArgs(tool)}}

\* The parameters of a wrapper that have no default (messaging.py:269, 307, 341,
\* 617: file_path: str); a call that leaves one out fails the validation of
\* its arguments and the wrapper is not entered.
RequiredArgs(tool) == IF tool \in FileTools THEN {"file_path"} ELSE {}

ArgsInvalid(tool, json) == \E n \in RequiredArgs(tool) : ArgsOf(json)[n] = "absent"

\* The tool call of a response is one the agent turns down.
CallInvalid(response) ==
    LET calls == SelectSeq(response, LAMBDA p : p.part_kind = "tool-call")
    IN  calls # <<>> /\ ArgsInvalid(calls[1].tool_name, calls[1].args)

\* The retry budget of a tool: the Agent is built without a retries argument,
\* so each tool gets the default of one retry.
Retries == 1

\* The path arguments a call passes explicitly.
PassedArgs(tool, json) == {n \in PathArgs(tool) : ArgsOf(json)[n] \notin {"absent", "default"}}

\* ---- frames
Envelope(type, message_id, tool_name, status, step) ==
    [type |-> type, message_id |-> message_id, tool_name |-> tool_name, status |-> status, step |-> step]

\* messaging.py:664, 686: a reply that carries only the key error; n is the
\* conversation id named in the text, 0 if the text names none
ErrorReply(text, n) ==
    [type |-> None, message_id |-> None, tool_name |-> None, status |-> None, step |-> None,
     error |-> text, n |-> n]
\* messaging.py:678-681
ConversationCreated == Envelope("conversation_created", None, None, None, None)
\* messaging.py:708-715
UserMessage(id) == Envelope("message", id, None, None, None)
\* messaging.py:781-792
\* the frame without its node
NodeAddedBare(message_id, step, parts) ==
    [type |-> "node_added", message_id |-> message_id, tool_name |-> None, status |-> None,
     step |-> step, node |-> [id |-> <<"step-", 0>>, step |-> 0, parts |-> <<>>]]
NodeAdded(message_id, step, parts) ==
    [type |-> "node_added", message_id |-> message_id, tool_name |-> None, status |-> None,
     step |-> step, node |-> [id |-> <<"step-", step>>, step |-> step, parts |-> parts]]
\* messaging.py:40-48 and the send_json calls of the wrappers; a tool frame has
\* no step field: the step recorded is step_number at the time it is sent.
ToolStartEnvelope(message_id, tool, step) == Envelope("tool_start", message_id, tool, None, step)
ToolCompleteEnvelope(message_id, tool, status, step) == Envelope("tool_complete", message_id, tool, status, step)
\* messaging.py:883-891
MessageComplete(id) == Envelope("message_complete", id, None, None, None)
\* messaging.py:901-905
ErrorEnvelope == Envelope("error", None, None, None, None)

\* websocket.send_json: frames reach the client in the order they are sent.
SendJsonReordered(log, frame) == <<frame>> \o log
SendJson(log, frame) == Append(log, frame)

\* ---- the agent
\* Tool call ids, as the model provider generates them: distinct per call.
ToolCallId(n) == <<"t1", "t2", "t3", "t4", "t5", "t6", "t7", "t8">>[n]

\* A model response that ends the run: text, possibly after thinking.
FinalResponses ==
    { <<TextPart("done")>>,
      <<Part("thinking", "hm", None, "anthropic", "sg", None, None, None), TextPart("done")>> }

\* A model response that calls a tool, possibly after text.
ToolResponses(fam, tcid) ==
    UNION { { pre \o <<ToolCallPart(tool, json, tcid)>> :
                pre \in {<<>>, <<TextPart("let me look")>>},
                json \in ArgsFor(tool) \cup (IF RequiredArgs(tool) # {} THEN {"{}"} ELSE {}) }
            : tool \in ToolNames(fam) }

IsPrompt(p) == p.part_kind \in {"user-prompt", "system-prompt"}
IsToolPart(p) == p.part_kind \in {"tool-call", "tool-return"}
ToolCalls(parts) == SelectSeq(parts, LAMBDA p : p.part_kind = "tool-call")

\* messaging.py:803-842: the dict built from one part of a response
PartDict(part) ==
    CASE part.part_kind = "text" ->
            Part("text", part.content, part.id, None, None, None, None, None)
      [] part.part_kind = "thinking" ->
            Part("thinking", part.content, part.id, part.provider_name, part.signature, None, None, None)
      [] part.part_kind = "tool-call" ->
            Part("tool-call", None, None, None, None, part.tool_name, part.args, part.tool_call_id)
      [] part.part_kind = "tool-return" ->
            Part("tool-return", part.content, None, None, None, part.tool_name, None, part.tool_call_id)
      [] OTHER ->
            Part(part.part_kind, part.content, None, None, None, None, None, None)

\* id(part) of the i-th part of the response to the req-th model request: the
\* run keeps every response in its message history, so the part objects of a
\* turn are alive together and no two of them have the same id.
ObjectId(req, i) == <<req, i>>

\* messaging.py:796: the key under which the loop remembers a part
PartKeyKindOnly(part, oid) == <<part.part_kind, <<0, 0>>>>
PartKey(part, oid) == <<part.part_kind, oid>>

RECURSIVE UnseenFrom(_, _, _, _)
UnseenFrom(response, seen, req, i) ==
    IF i > Len(response) THEN <<>>
    ELSE LET key == PartKey(response[i], ObjectId(req, i))
         IN  (IF key \in seen THEN <<>> ELSE <<response[i]>>)
             \o UnseenFrom(response, seen \cup {key}, req, i + 1)

\* messaging.py:795-800: the parts of a response the loop has not seen, and the
\* keys it has seen after the response
Unseen(response, seen, req) == UnseenFrom(response, seen, req, 1)
SeenAfter(response, seen, req) ==
    seen \cup {PartKey(response[i], ObjectId(req, i)) : i \in DOMAIN response}

\* messaging.py:795-849: the dicts a response adds to all_parts_for_db, and those
\* of them that go into the node_added frame
DbParts(response) == MapSeq(PartDict, SelectSeq(response, LAMBDA p : ~IsPrompt(p)))
NodeParts(response) == SelectSeq(DbParts(response), LAMBDA d : ~IsToolPart(d))

\* The output of a run that ended: the text of the final response.
RunOutput(response) ==
    LET texts == SelectSeq(response, LAMBDA p : p.part_kind = "text")
    IN  IF texts = <<>> THEN "" ELSE texts[Len(texts)].content

\* ---- the endpoint
TurnFrame == UNCHANGED <<codecVars, pathVars, procVars, connsVars, fnVars, family>>

TurnInit ==
    /\ CodecIdle
    /\ PathIdle
    /\ ProcIdle
    /\ ConnsIdle
    /\ FnIdle
    /\ family \in Families
    /\ pc = "accept"
    /\ TurnStart

\* messaging.py:910: session.rollback is called when the local agent_message is
\* bound
RollbackAlways(bound) == TRUE
RollbackCalled(bound) == bound

\* messaging.py:896-917: the error frame is sent, or the send raises and is
\* logged; session.rollback if agent_message is bound; manager.disconnect. The
\* handler returns and the session closes (line 654), which discards what is
\* uncommitted.
HandleExceptionAfter(log) ==
    /\ \E ok \in BOOLEAN :
          /\ sent' = IF ok THEN SendJson(log, ErrorEnvelope) ELSE log
          /\ handled' = [by |-> "Exception", error_sent |-> ok,
                         rollback |-> RollbackCalled(agent_message # 0),
                         conversation_id |-> conversation_id]
    /\ pending' = <<>>
    /\ active_connections' = active_connections \ {WS}
    /\ pc' = "closed"

\* The handler, for an exception raised after the frame of the turn was read.
HandleException == HandleExceptionAfter(sent)

\* messaging.py:652, connection_manager.py:11-14
Connect ==
    /\ TurnFrame
    /\ UNCHANGED handled
    /\ pc = "accept"
    /\ active_connections' = active_connections \cup {WS}
    /\ pc' = "receive"
    /\ UNCHANGED <<sent, storeVars, localVars, runVars>>

\* A content one character longer than the max_length of MessageBase.content
\* (models/conversation.py:39).
Oversize == "oversize"
\* The frames a client sends.
FrameContents == {"", "hello", Oversize}
\* conversation_id 0 stands for a frame without one: the handler tests `not
\* conversation_id`
FrameConversationIds == {0, 1}

\* messaging.py:663, 685: the frame is turned down: no content, or a
\* conversation id that names no row
FrameRejectedContentOnly(c, cid, convs) == c = ""
FrameRejected(c, cid, convs) == c = "" \/ (cid # 0 /\ cid \notin convs)

\* messaging.py:658-687; a frame that would start a turn is taken while the
\* store has room for the two rows of the turn
ReceiveFrameWithin(c, cid, rows) ==
    /\ TurnFrame
    /\ UNCHANGED handled
    /\ pc = "receive"
    /\ user_content' = c
    /\ IF FrameRejected(c, cid, conversations)
       THEN /\ sent' = <<IF c = "" THEN ErrorReply("Message content is required", 0)
                                  ELSE ErrorReply("Conversation N not found", cid)>>
            /\ conversation_id' = cid
            /\ pc' = "receive"
            /\ UNCHANGED conversations
       ELSE /\ Len(messages) + 2 <= rows
            /\ pc' = "persist_user"
            /\ IF cid = 0
               THEN LET new == Cardinality(conversations) + 1
                    IN  /\ conversations' = conversations \cup {new}
                        /\ conversation_id' = new
                        /\ sent' = <<ConversationCreated>>
               ELSE /\ conversation_id' = cid
                    /\ sent' = <<>>
                    /\ UNCHANGED conversations
    /\ UNCHANGED <<active_connections, messages, pending, agent_message, message_history, runVars>>

ReceiveFrame(c, cid) == ReceiveFrameWithin(c, cid, MaxRows)

\* messaging.py:658-660: receive_json raises on a frame that is not JSON, data.get
\* on one that is not an object
ReceiveRaises ==
    /\ TurnFrame
    /\ pc = "receive"
    /\ HandleExceptionAfter(<<>>)
    /\ UNCHANGED <<conversations, messages, localVars, runVars>>

\* messaging.py:701-702: the commit of the USER row raises
PersistUserFails ==
    /\ TurnFrame
    /\ pc = "persist_user"
    /\ HandleException
    /\ UNCHANGED <<conversations, messages, localVars, runVars>>

\* a query that leaves out the conversation
previous_messages_all(rows, conv, user_message_id) ==
    SelectSeq(rows, LAMBDA m : m.id # user_message_id)

\* messaging.py:718-724: the rows of the conversation other than the USER row
\* just inserted, ordered by created_at; the rows of the store are kept in the
\* order they were created in.
previous_messages(rows, conv, user_message_id) ==
    SelectSeq(rows, LAMBDA m : m.conversation_id = conv /\ m.id # user_message_id)

\* messaging.py:693-725
PersistUser ==
    /\ TurnFrame
    /\ UNCHANGED handled
    /\ pc = "persist_user"
    /\ LET id == Len(messages) + 1
       IN  /\ messages' = Append(messages, Row(id, conversation_id, "USER", user_content, NoParts))
           /\ sent' = SendJson(sent, UserMessage(id))
    /\ message_history' = convert_db_messages_to_history(
                             previous_messages(messages', conversation_id, Len(messages) + 1))
    /\ pc' = "start_agent"
    /\ UNCHANGED <<active_connections, conversations, pending, conversation_id, user_content,
                   agent_message, runVars>>

\* messaging.py:733-769
StartAgent ==
    /\ TurnFrame
    /\ UNCHANGED handled
    /\ pc = "start_agent"
    /\ LET id == Len(messages) + 1
       IN  /\ messages' = Append(messages, Row(id, conversation_id, "AGENT", "", NoParts))
           /\ agent_message' = id
    /\ next_node' = "UserPromptNode"
    /\ model_response' = <<>>
    /\ step_number' = 0
    /\ all_parts_for_db' = <<>>
    /\ sent_parts' = {}
    /\ requests' = 0
    /\ retries' = 0
    /\ tool_calls_count' = 0
    /\ tool_pc' = <<>>
    /\ tool_result' = NoToolResult
    /\ io' = {}
    /\ final_output' = ""
    /\ pc' = "step"
    /\ UNCHANGED <<active_connections, sent, conversations, pending, conversation_id, user_content,
                   message_history>>

\* messaging.py:770-772 on the UserPromptNode: the graph moves to the model request
StepUserPrompt ==
    /\ TurnFrame
    /\ UNCHANGED handled
    /\ pc = "step"
    /\ next_node = "UserPromptNode"
    /\ next_node' = "ModelRequestNode"
    /\ step_number' = step_number + 1
    /\ UNCHANGED <<active_connections, pc, sent, storeVars, localVars, model_response, all_parts_for_db, sent_parts, requests,
                   retries, tool_calls_count, tool_pc, tool_result, io, final_output>>

\* messaging.py:770-853 on a ModelRequestNode: the model answers, run.next returns
\* the CallToolsNode that holds the response, the loop body records its parts
\* and sends node_added
StepModelRequest(response) ==
    /\ TurnFrame
    /\ UNCHANGED handled
    /\ pc = "step"
    /\ next_node = "ModelRequestNode"
    /\ requests < MaxModelRequests
    /\ requests + 1 = MaxModelRequests =>
          \/ response \in FinalResponses
          \/ retries = Retries /\ CallInvalid(response)
    /\ requests' = requests + 1
    /\ next_node' = "CallToolsNode"
    /\ model_response' = response
    /\ step_number' = step_number + 1
    /\ LET unseen == Unseen(response, sent_parts, requests + 1)
       IN  /\ all_parts_for_db' = all_parts_for_db \o DbParts(unseen)
           /\ tool_calls_count' = tool_calls_count + Len(ToolCalls(unseen))
           /\ sent' = IF NodeParts(unseen) # <<>>
                      THEN SendJson(sent, NodeAdded(agent_message, step_number + 1, NodeParts(unseen)))
                      ELSE sent
    /\ sent_parts' = SeenAfter(response, sent_parts, requests + 1)
    /\ tool_pc' = [k \in DOMAIN ToolCalls(response) |-> "none"]
    /\ UNCHANGED <<active_connections, pc, storeVars, localVars, retries, tool_result, io, final_output>>

\* The model request raises: the exception leaves run.next.
AgentRunRaises ==
    /\ TurnFrame
    /\ pc = "step"
    /\ next_node = "ModelRequestNode"
    /\ HandleException
    /\ UNCHANGED <<conversations, messages, localVars, runVars>>

\* agent_tools.py:334-345, 377, 403: the tools that await a child process, where
\* the event loop runs the other tasks.
SubprocessTools == CwdTools \cup {"run_tests_tool"}

\* A model response that calls such a tool twice.
TwoCallResponses(fam, n) ==
    UNION { { <<ToolCallPart(tool, json, ToolCallId(n)), ToolCallPart(tool, json, ToolCallId(n + 1))>> :
                json \in ArgsFor(tool) }
            : tool \in ToolNames(fam) \cap SubprocessTools }

\* The responses the model can give at this point of the run; within one run
\* the model keeps to the tool it called first.
Responses ==
    LET called == {p.tool_name : p \in Range(ToolCalls(all_parts_for_db))}
    IN  FinalResponses
        \cup {r \in ToolResponses(family, ToolCallId(tool_calls_count + 1))
                     \cup TwoCallResponses(family, tool_calls_count + 1) :
                called # {} => ToolCalls(r)[1].tool_name \in called}

\* The k-th tool call of the response the current CallToolsNode holds.
CurrentCall(k) == ToolCalls(model_response)[k]

\* run.next on a CallToolsNode executes the tool calls of the response as
\* concurrent tasks: the wrappers interleave at their awaits.
Running(k) ==
    /\ pc = "step"
    /\ next_node = "CallToolsNode"
    /\ k \in DOMAIN tool_pc

\* The first await of a wrapper: it sends tool_start (inside its try, where it
\* has one).
ToolStart(k) ==
    /\ TurnFrame
    /\ UNCHANGED handled
    /\ Running(k)
    /\ tool_pc[k] = "none"
    /\ ~ArgsInvalid(CurrentCall(k).tool_name, CurrentCall(k).args)
    /\ sent' = SendJson(sent, ToolStartEnvelope(agent_message, CurrentCall(k).tool_name, step_number))
    /\ tool_pc' = [tool_pc EXCEPT ![k] = "started"]
    /\ UNCHANGED <<active_connections, pc, storeVars, localVars, next_node, model_response,
                   step_number, all_parts_for_db, sent_parts, requests, retries, tool_calls_count, tool_result, io,
                   final_output>>

ToolResult(tool, raised, propagated, returned, status) ==
    [tool |-> tool, raised |-> raised, propagated |-> propagated, returned |-> returned, status |-> status]

\* A call that already used the retries of its tool.
RetriesExhausted(n) == n >= Retries

\* A tool call the agent turns down (its arguments fail validation): the
\* wrapper is not entered; while the tool has a retry left the call is answered
\* with a retry prompt, otherwise the run raises UnexpectedModelBehavior.
ToolArgsRejected(k) ==
    /\ TurnFrame
    /\ Running(k)
    /\ tool_pc[k] = "none"
    /\ ArgsInvalid(CurrentCall(k).tool_name, CurrentCall(k).args)
    /\ IF RetriesExhausted(retries)
       THEN /\ tool_result' = ToolResult(CurrentCall(k).tool_name, "UnexpectedModelBehavior",
                                         "UnexpectedModelBehavior", "none", None)
            /\ tool_pc' = [tool_pc EXCEPT ![k] = "rejected"]
            /\ HandleException
       ELSE /\ tool_pc' = [tool_pc EXCEPT ![k] = "retry"]
            /\ UNCHANGED <<active_connections, pc, sent, pending, handled, tool_result>>
    /\ UNCHANGED <<conversations, messages, localVars, next_node, model_response, step_number,
                   all_parts_for_db, sent_parts, requests, retries, tool_calls_count, io, final_output>>

\* The except clause of the wrapper takes the exception.
Caught(fam, tool, exc) ==
    \/ Catches(fam, tool) = "Exception"
    \/ Catches(fam, tool) = "ValueError" /\ exc = "ValueError"

\* The rest of a wrapper: it validates the path arguments it validates, calls
\* the underlying tool, which returns or raises `outcome`, and sends
\* tool_complete; an exception goes to the except clause, or out of the wrapper
\* and with it out of run.next to the handler of the endpoint.
ToolRun(k, outcome) ==
    /\ TurnFrame
    /\ Running(k)
    /\ tool_pc[k] = "started"
    /\ LET tool == CurrentCall(k).tool_name
           args == ArgsOf(CurrentCall(k).args)
           passed == PassedArgs(tool, CurrentCall(k).args)
           checked == passed \cap ValidatedArgs(tool)
           invalid == \E n \in checked : args[n] = "outside"
           raised == IF invalid THEN "ValueError" ELSE outcome
       IN  /\ outcome \in {"none"} \cup Raises(tool)
           /\ invalid => outcome = "none"
           /\ io' = IF invalid THEN io
                    ELSE io \cup {[tool |-> tool, arg |-> n, value |-> args[n], validated |-> n \in checked]
                                    : n \in passed}
           /\ IF raised = "none"
              THEN /\ sent' = SendJson(sent, ToolCompleteEnvelope(agent_message, tool,
                                                                  SuccessStatus(family, tool), step_number))
                   /\ tool_result' = ToolResult(tool, raised, "none", "result", SuccessStatus(family, tool))
                   /\ tool_pc' = [tool_pc EXCEPT ![k] = "done"]
                   /\ UNCHANGED <<active_connections, pc, pending, handled>>
              ELSE IF Caught(family, tool, raised) /\ ErrorComplete(family, tool) # "kwargs"
              THEN LET status == IF ErrorComplete(family, tool) = "status" THEN "error" ELSE None
                   IN  /\ sent' = SendJson(sent, ToolCompleteEnvelope(agent_message, tool, status, step_number))
                       /\ tool_result' = ToolResult(tool, raised, "none", "error_text", status)
                       /\ tool_pc' = [tool_pc EXCEPT ![k] = "done"]
                       /\ UNCHANGED <<active_connections, pc, pending, handled>>
              ELSE /\ tool_result' = ToolResult(tool, raised,
                                                IF Caught(family, tool, raised) THEN "TypeError" ELSE raised,
                                                "none", None)
                   /\ tool_pc' = [tool_pc EXCEPT ![k] = "raised"]
                   /\ HandleException
    /\ UNCHANGED <<conversations, messages, localVars, next_node, model_response, step_number,
                   all_parts_for_db, sent_parts, requests, retries, tool_calls_count, final_output>>

\* messaging.py:770-772 on a CallToolsNode: with no tool call in the response the
\* graph ends with the text as output; once every tool call has returned or was
\* answered with a retry prompt it moves to the next model request. A tool
\* answered with a retry prompt has used a retry, a tool that ran has them back.
StepCallTools ==
    /\ TurnFrame
    /\ UNCHANGED handled
    /\ pc = "step"
    /\ next_node = "CallToolsNode"
    /\ IF ToolCalls(model_response) = <<>>
       THEN /\ next_node' = "End"
            /\ UNCHANGED <<tool_pc, retries>>
       ELSE /\ \A k \in DOMAIN tool_pc : tool_pc[k] \in {"done", "retry"}
            /\ next_node' = "ModelRequestNode"
            /\ tool_pc' = <<>>
            /\ retries' = IF \E k \in DOMAIN tool_pc : tool_pc[k] = "retry" THEN retries + 1 ELSE 0
    /\ step_number' = step_number + 1
    /\ UNCHANGED <<active_connections, pc, sent, storeVars, localVars, model_response, all_parts_for_db,
                   sent_parts, requests, tool_calls_count, tool_result, io, final_output>>

\* messaging.py:856-866
Finalize ==
    /\ TurnFrame
    /\ UNCHANGED handled
    /\ pc = "step"
    /\ next_node = "End"
    /\ final_output' = RunOutput(model_response)
    /\ pending' = <<[id |-> agent_message, content |-> RunOutput(model_response),
                     parts |-> Payload(all_parts_for_db, "m", "ts")]>>
    /\ pc' = "commit"
    /\ UNCHANGED <<active_connections, sent, conversations, messages, localVars, next_node,
                   model_response, step_number, all_parts_for_db, sent_parts, requests, retries, tool_calls_count,
                   tool_pc, tool_result, io>>

\* a commit that leaves the rows as they were
CommitKeepsRows(rows, changes) == rows

\* session.commit writes the pending change to the row
Commit(rows, changes) ==
    [i \in DOMAIN rows |->
        IF \E k \in DOMAIN changes : changes[k].id = rows[i].id
        THEN LET ch == changes[CHOOSE k \in DOMAIN changes : changes[k].id = rows[i].id]
             IN  [rows[i] EXCEPT !.content = ch.content, !.parts = ch.parts]
        ELSE rows[i]]

\* messaging.py:867
CommitFinal ==
    /\ TurnFrame
    /\ UNCHANGED handled
    /\ pc = "commit"
    /\ messages' = Commit(messages, pending)
    /\ pending' = <<>>
    /\ pc' = "complete"
    /\ UNCHANGED <<active_connections, sent, conversations, localVars, runVars>>

\* messaging.py:867: the commit raises
CommitFails ==
    /\ TurnFrame
    /\ pc = "commit"
    /\ HandleException
    /\ UNCHANGED <<conversations, messages, localVars, runVars>>

\* messaging.py:883-891
SendComplete ==
    /\ TurnFrame
    /\ UNCHANGED handled
    /\ pc = "complete"
    /\ sent' = SendJson(sent, MessageComplete(agent_message))
    /\ pc' = "receive"
    /\ UNCHANGED <<active_connections, storeVars, localVars, runVars>>

\* messaging.py:893-895: the client is gone, the pending receive or send raises
\* WebSocketDisconnect
Disconnect ==
    /\ TurnFrame
    /\ pc \in {"receive", "complete"}
    /\ active_connections' = active_connections \ {WS}
    /\ pc' = "closed"
    /\ handled' = [by |-> "WebSocketDisconnect", error_sent |-> FALSE, rollback |-> FALSE,
                   conversation_id |-> conversation_id]
    /\ UNCHANGED <<sent, storeVars, localVars, runVars>>

Next ==
    \/ Connect
    \/ \E c \in FrameContents, cid \in FrameConversationIds : ReceiveFrame(c, cid)
    \/ ReceiveRaises
    \/ PersistUser
    \/ PersistUserFails
    \/ StartAgent
    \/ StepUserPrompt
    \/ \E response \in Responses : StepModelRequest(response)
    \/ AgentRunRaises
    \/ \E k \in DOMAIN tool_pc : ToolArgsRejected(k)
    \/ \E k \in DOMAIN tool_pc : ToolStart(k)
    \/ \E k \in DOMAIN tool_pc, outcome \in {"none", "ValueError", "Exception", "ModelRetry"} : ToolRun(k, outcome)
    \/ StepCallTools
    \/ Finalize
    \/ CommitFinal
    \/ CommitFails
    \/ SendComplete
    \/ Disconnect

Spec == TurnInit /\ [][Next]_vars


\* ---- a turn on a store that already holds rows ----
\* Rows the store holds when the turn begins.
MaxStored == 3

\* The rows of earlier turns: a USER row, the AGENT row of a finished turn with
\* and without a parts payload, the AGENT row a failed turn left empty, and an
\* AGENT row whose only part is a tool call without a return.
StoredRows ==
    { Row(0, conv, "USER", "hello", NoParts) : conv \in {1, 2} }
    \cup { Row(0, conv, "AGENT", c, NoParts) : conv \in {1, 2}, c \in {"", "final"} }
    \cup { Row(0, conv, "AGENT", "final", Payload(<<d>>, "m", "ts")) :
             conv \in {1, 2},
             d \in { Part("text", "t", None, None, None, None, None, None),
                     Part("tool-call", None, None, None, None, "read_file_tool", "{}", "x") } }

\* The stores: the i-th row created has id i.
Stores ==
    UNION { { [i \in 1..n |-> [f[i] EXCEPT !.id = i]] : f \in [1..n -> StoredRows] }
            : n \in 0..MaxStored }

\* The handler has read a frame that names one of the two conversations and is
\* about to insert its USER row.
LoadInit ==
    /\ CodecIdle
    /\ PathIdle
    /\ ProcIdle
    /\ ConnsIdle
    /\ FnIdle
    /\ family \in Families
    /\ pc = "persist_user"
    /\ active_connections = {WS}
    /\ handled = NoHandled
    /\ sent = <<>>
    /\ conversations = {1, 2}
    /\ messages \in Stores
    /\ pending = <<>>
    /\ conversation_id \in conversations
    /\ user_content = "hello"
    /\ agent_message = 0
    /\ message_history = <<>>
    /\ RunStart

LoadNext == PersistUser \/ PersistUserFails

SpecLoad == LoadInit /\ [][LoadNext]_vars


\* ---- turns that follow one another, on one connection or on the next ----
\* Message rows of the store when turns follow one another: two per turn.
MaxTurnRows == 4
\* Conversations the store holds when a client connects again.
MaxConversations == 2

\* messaging.py:650-655: the client connects again after its connection was
\* closed; the endpoint runs anew, with fresh locals and a fresh websocket, on
\* the store the earlier connection left.
Reconnect ==
    /\ TurnFrame
    /\ pc = "closed"
    /\ Cardinality(conversations) < MaxConversations
    /\ active_connections' = active_connections \cup {WS}
    /\ handled' = NoHandled
    /\ sent' = <<>>
    /\ pending' = <<>>
    /\ conversation_id' = 0
    /\ user_content' = None
    /\ agent_message' = 0
    /\ message_history' = <<>>
    /\ next_node' = None
    /\ model_response' = <<>>
    /\ step_number' = 0
    /\ all_parts_for_db' = <<>>
    /\ sent_parts' = {}
    /\ requests' = 0
    /\ retries' = 0
    /\ tool_calls_count' = 0
    /\ tool_pc' = <<>>
    /\ tool_result' = NoToolResult
    /\ io' = {}
    /\ final_output' = ""
    /\ pc' = "receive"
    /\ UNCHANGED <<conversations, messages>>

\* The responses of the model in these turns: a final one, or a call of
\* get_working_directory_tool with or without text before it.
TurnsResponses ==
    FinalResponses
    \cup { pre \o <<ToolCallPart("get_working_directory_tool", "{}", ToolCallId(tool_calls_count + 1))>> :
             pre \in {<<>>, <<TextPart("let me look")>>} }

TurnsNext ==
    \/ Connect
    \/ Reconnect
    \/ \E cid \in FrameConversationIds : ReceiveFrameWithin("hello", cid, MaxTurnRows)
    \/ PersistUser
    \/ PersistUserFails
    \/ StartAgent
    \/ StepUserPrompt
    \/ \E response \in TurnsResponses : StepModelRequest(response)
    \/ AgentRunRaises
    \/ \E k \in DOMAIN tool_pc : ToolStart(k)
    \/ \E k \in DOMAIN tool_pc : ToolRun(k, "none")
    \/ StepCallTools
    \/ Finalize
    \/ CommitFinal
    \/ CommitFails
    \/ SendComplete
    \/ Disconnect

SpecTurns == TurnInit /\ [][TurnsNext]_vars


(***************************************************************************)
(* CONNECTIONS: websocket_messaging_endpoint runs once per connection; the  *)
(* runs interleave at their awaits. A turn is followed at the grain of the  *)
(* frames it sends; the tool call of a turn may start a background process. *)
(***************************************************************************)
\* Frames a connection reads before the model stops following it.
MaxTurns == 2

Conns == {"c1", "c2"}

Frame(turn, type) == [turn |-> turn, type |-> type]

ConnsFrame ==
    UNCHANGED <<codecVars, pathVars, fnVars, family, pc, sent, handled, storeVars, localVars, runVars,
                verified, call_pc, call_id, call_proc, call_res>>

ConnsInit ==
    /\ CodecIdle
    /\ PathIdle
    /\ ProcIdle
    /\ TurnIdle
    /\ FnIdle
    /\ conn_pc = [c \in Conns |-> "accept"]
    /\ conn_turn = [c \in Conns |-> 0]
    /\ conn_sent = [c \in Conns |-> <<>>]

\* connection_manager.py:11-14, 16-19
Connected(conns, c) == conns \cup {c}
DisconnectedKeeps(conns, c) == conns
Disconnected(conns, c) == conns \ {c}

\* messaging.py:652
ConnAccept(c) ==
    /\ ConnsFrame
    /\ conn_pc[c] = "accept"
    /\ active_connections' = Connected(active_connections, c)
    /\ conn_pc' = [conn_pc EXCEPT ![c] = "receive"]
    /\ UNCHANGED <<conn_turn, conn_sent, registry, procs, next_pid>>

\* messaging.py:656-658: receive_json is awaited at the head of the loop only
ReceiveReadyInTurn(c) == conn_pc[c] \in {"receive", "turn"}
ReceiveReady(c) == conn_pc[c] = "receive"

\* messaging.py:658-687: a frame is read; one that is turned down is answered
\* and the loop continues, any other starts a turn
ConnReceive(c, accepted) ==
    /\ ConnsFrame
    /\ ReceiveReady(c)
    /\ conn_turn[c] < MaxTurns
    /\ conn_turn' = [conn_turn EXCEPT ![c] = @ + 1]
    /\ IF accepted
       THEN /\ conn_pc' = [conn_pc EXCEPT ![c] = "turn"]
            /\ conn_sent' = [conn_sent EXCEPT ![c] = Append(@, Frame(conn_turn[c] + 1, "message"))]
       ELSE /\ conn_pc' = [conn_pc EXCEPT ![c] = "receive"]
            /\ conn_sent' = [conn_sent EXCEPT ![c] = Append(@, Frame(conn_turn[c] + 1, "error_reply"))]
    /\ UNCHANGED <<active_connections, registry, procs, next_pid>>

\* messaging.py:770-853: the turn streams a frame (one per turn is followed)
ConnStream(c) ==
    /\ ConnsFrame
    /\ conn_pc[c] = "turn"
    /\ Frame(conn_turn[c], "node_added") \notin Range(conn_sent[c])
    /\ conn_sent' = [conn_sent EXCEPT ![c] = Append(@, Frame(conn_turn[c], "node_added"))]
    /\ UNCHANGED <<active_connections, conn_pc, conn_turn, registry, procs, next_pid>>

\* agent_tools.py:472-482: a tool call of the turn launches a child and stores
\* it in the registry
ConnStartProcess(c, id) ==
    /\ ConnsFrame
    /\ conn_pc[c] = "turn"
    /\ registry[id] = 0
    /\ next_pid \in Pids
    /\ registry' = [registry EXCEPT ![id] = next_pid]
    /\ procs' = [procs EXCEPT ![next_pid] = "running"]
    /\ next_pid' = next_pid + 1
    /\ UNCHANGED <<active_connections, connsVars>>

\* messaging.py:883-891, then back to the head of the loop
ConnComplete(c) ==
    /\ ConnsFrame
    /\ conn_pc[c] = "turn"
    /\ conn_sent' = [conn_sent EXCEPT ![c] = Append(@, Frame(conn_turn[c], "message_complete"))]
    /\ conn_pc' = [conn_pc EXCEPT ![c] = "receive"]
    /\ UNCHANGED <<active_connections, conn_turn, registry, procs, next_pid>>

\* messaging.py:896-917: an exception of the turn; the error frame is sent or
\* its send fails
ConnRaise(c) ==
    /\ ConnsFrame
    /\ conn_pc[c] = "turn"
    /\ \E ok \in BOOLEAN :
          conn_sent' = [conn_sent EXCEPT ![c] = IF ok THEN Append(@, Frame(conn_turn[c], "error")) ELSE @]
    /\ active_connections' = Disconnected(active_connections, c)
    /\ conn_pc' = [conn_pc EXCEPT ![c] = "closed"]
    /\ UNCHANGED <<conn_turn, registry, procs, next_pid>>

\* messaging.py:893-917: the client is gone; the pending receive_json or the next
\* send raises, WebSocketDisconnect or another exception, and in the second
\* case the send of the error frame fails too
ConnDisconnect(c) ==
    /\ ConnsFrame
    /\ conn_pc[c] \in {"receive", "turn"}
    /\ active_connections' = Disconnected(active_connections, c)
    /\ conn_pc' = [conn_pc EXCEPT ![c] = "disconnected"]
    /\ UNCHANGED <<conn_turn, conn_sent, registry, procs, next_pid>>

ConnsNext ==
    \/ \E c \in Conns : ConnAccept(c)
    \/ \E c \in Conns, accepted \in BOOLEAN : ConnReceive(c, accepted)
    \/ \E c \in Conns : ConnStream(c)
    \/ \E c \in Conns, id \in ProcIds : ConnStartProcess(c, id)
    \/ \E c \in Conns : ConnComplete(c)
    \/ \E c \in Conns : ConnRaise(c)
    \/ \E c \in Conns : ConnDisconnect(c)

SpecConns == ConnsInit /\ [][ConnsNext]_vars


(***************************************************************************)
(* FILE TOOLS AND COMPACTOR, called as functions on small inputs           *)
(***************************************************************************)
FnFrame == UNCHANGED <<codecVars, pathVars, procVars, turnVars, connsVars>>

FnIdleRest == CodecIdle /\ PathIdle /\ ProcIdle /\ TurnIdle /\ ConnsIdle

\* ---- edit_file
\* Longest file, old_content and new_content, in characters.
MaxFileLen == 3
MaxOldLen == 2
MaxNewLen == 1

\* The characters of a file: a letter, carriage return and line feed.
Chars == {"X", "CR", "LF"}

\* open(path, 'r'): text mode with universal newlines, CR LF and CR are read
\* as LF (agent_tools.py:133-134)
RECURSIVE ReadText(_)
ReadText(bytes) ==
    IF bytes = <<>> THEN <<>>
    ELSE IF Head(bytes) = "CR"
         THEN IF Len(bytes) > 1 /\ bytes[2] = "LF"
              THEN <<"LF">> \o ReadText(Tail(Tail(bytes)))
              ELSE <<"LF">> \o ReadText(Tail(bytes))
         ELSE <<Head(bytes)>> \o ReadText(Tail(bytes))

\* open(path, 'w'): LF is written as the line separator of the platform, LF
\* itself on the POSIX host the server runs on (agent_tools.py:141-142)
WriteText(chars) == chars

\* The first index at which old occurs in s, 0 if it does not occur; the empty
\* string occurs at the start of every string.
Find(s, old) ==
    LET at == {i \in 1..(Len(s) + 1) : i + Len(old) - 1 <= Len(s) /\ SubSeq(s, i, i + Len(old) - 1) = old}
    IN  IF at = {} THEN 0 ELSE CHOOSE i \in at : \A j \in at : i <= j

\* str.replace(old, new, 1)
ReplaceFirst(s, old, new) ==
    LET i == Find(s, old)
    IN  IF i = 0 THEN s ELSE SubSeq(s, 1, i - 1) \o new \o SubSeq(s, i + Len(old), Len(s))

\* agent_tools.py:108-146 on a file that exists: what it raised and the file
\* it left
edit_file(file, old_content, new_content) ==
    LET content == ReadText(file)
    IN  IF Find(content, old_content) = 0
        THEN [raised |-> "Could not find old_content", file |-> file]
        ELSE [raised |-> "none", file |-> WriteText(ReplaceFirst(content, old_content, new_content))]

EditInit ==
    /\ FnIdleRest
    /\ fn_pc = "ready"
    /\ fn_args \in [file : SeqsUpTo(Chars, MaxFileLen),
                    old_content : SeqsUpTo(Chars, MaxOldLen),
                    new_content : SeqsUpTo(Chars, MaxNewLen)]
    /\ fn_ret = <<>>

\* The edit, and the same edit once more on the file the first left.
EditFile ==
    /\ FnFrame
    /\ fn_pc = "ready"
    /\ fn_ret' = <<edit_file(fn_args.file, fn_args.old_content, fn_args.new_content)>>
    /\ fn_pc' = "done"
    /\ UNCHANGED fn_args

EditFileAgain ==
    /\ FnFrame
    /\ fn_pc = "done"
    /\ fn_ret' = Append(fn_ret, edit_file(fn_ret[1].file, fn_args.old_content, fn_args.new_content))
    /\ fn_pc' = "repeated"
    /\ UNCHANGED fn_args

EditNext == EditFile \/ EditFileAgain

SpecEdit == EditInit /\ [][EditNext]_vars


\* ---- list_files: the listing of a directory tree ----
\* A name is a sequence of pieces of text, a path a sequence of names, and a
\* pattern a sequence of pieces in which "*" stands for any run of characters.
node_modules == <<"node_modules">>
src == <<"src">>
tmp1 == <<"tmp", "1">>
a_py == <<"a", ".py">>
b_pyc == <<"b", ".pyc">>
x == <<"x">>
dot_gitignore == <<".gitignore">>

\* The entries a tree below the listed directory may hold, each with its
\* kind; a tree holds an entry only together with its parent directory.
Entries ==
    { [path |-> <<node_modules>>, kind |-> "dir"],
      [path |-> <<node_modules, x>>, kind |-> "file"],
      [path |-> <<src>>, kind |-> "dir"],
      [path |-> <<src, a_py>>, kind |-> "file"],
      [path |-> <<src, b_pyc>>, kind |-> "file"],
      [path |-> <<tmp1>>, kind |-> "dir"],
      [path |-> <<tmp1, x>>, kind |-> "file"],
      [path |-> <<x>>, kind |-> "file"],
      [path |-> <<dot_gitignore>>, kind |-> "file"] }

Trees ==
    { t \in SUBSET Entries :
        \A e \in t : Len(e.path) > 1 =>
            [path |-> SubSeq(e.path, 1, Len(e.path) - 1), kind |-> "dir"] \in t }

\* The code points that order the pieces: "." < "/" < digits < letters;
\* ".gitignore" < ".py" < ".pyc" as strings.
Ord(piece) ==
    CASE piece = "*" -> 0
      [] piece = ".gitignore" -> 1
      [] piece = ".py" -> 2
      [] piece = ".pyc" -> 3
      [] piece = "/" -> 4
      [] piece = "1" -> 5
      [] piece = "a" -> 6
      [] piece = "b" -> 7
      [] piece = "node_modules" -> 8
      [] piece = "src" -> 9
      [] piece = "tmp" -> 10
      [] piece = "x" -> 11

\* str(p.relative_to(path)): the names joined by the separator.
RECURSIVE relative_to(_)
relative_to(path) ==
    IF Len(path) = 1 THEN path[1]
    ELSE path[1] \o <<"/">> \o relative_to(Tail(path))

\* Python's order of two strings.
RECURSIVE StrLess(_, _)
StrLess(s, t) ==
    IF t = <<>> THEN FALSE
    ELSE IF s = <<>> THEN TRUE
    ELSE IF Head(s) # Head(t) THEN Ord(Head(s)) < Ord(Head(t))
    ELSE StrLess(Tail(s), Tail(t))

RECURSIVE sorted(_)
sorted(strs) ==
    IF strs = {} THEN <<>>
    ELSE LET least == CHOOSE s \in strs : \A t \in strs \ {s} : StrLess(s, t)
         IN  <<least>> \o sorted(strs \ {least})

\* The match of a name against a glob pattern, as Path.glob and fnmatch do it.
RECURSIVE GlobMatch(_, _)
GlobMatch(pattern, name) ==
    IF pattern = <<>> THEN name = <<>>
    ELSE IF Head(pattern) = "*"
         THEN \/ GlobMatch(Tail(pattern), name)
              \/ name # <<>> /\ GlobMatch(pattern, Tail(name))
         ELSE /\ name # <<>>
              /\ Head(name) = Head(pattern)
              /\ GlobMatch(Tail(pattern), Tail(name))

endswith(part, suffix) ==
    /\ Len(suffix) <= Len(part)
    /\ SubSeq(part, Len(part) - Len(suffix) + 1, Len(part)) = suffix

\* The exclusions of the default list that can name an entry of Entries.
default_exclusions == << node_modules, <<"*", ".pyc">> >>

\* The lists a caller passes: none, the empty one, and lists of one pattern
\* with the wildcard first, last, or absent.
ExcludeLists ==
    { <<>>, << <<"*", ".pyc">> >>, << <<"tmp", "*">> >>, << src >>,
      << <<"src", "/", "a", ".py">> >> }

ExcludePatterns ==
    { [given |-> FALSE, list |-> <<>>] }
        \cup { [given |-> TRUE, list |-> l] : l \in ExcludeLists }

\* The .gitignore of the listed directory, when there is one: one line that
\* names x, which ignores every entry called x and all below it.
gitignore_line == x

gitignore_spec(tree, respect_gitignore) ==
    respect_gitignore /\ [path |-> <<dot_gitignore>>, kind |-> "file"] \in tree

match_file(path) == \E i \in DOMAIN path : path[i] = gitignore_line

ExcludedBy(excl, path) ==
    \E i \in DOMAIN path :
        IF excl # <<>> /\ Head(excl) = "*"
        THEN endswith(path[i], Tail(excl))
        ELSE path[i] = excl \/ relative_to(path) = excl

should_exclude(path, exclusions, ignoring) ==
    \/ ignoring /\ match_file(path)
    \/ \E k \in DOMAIN exclusions : ExcludedBy(exclusions[k], path)

\* path.rglob(pattern) or path.glob(pattern): the entries whose last name
\* matches, at any depth or directly below the directory.
all_paths(tree, pattern, recursive) ==
    { e \in tree : /\ GlobMatch(pattern, e.path[Len(e.path)])
                   /\ recursive \/ Len(e.path) = 1 }

list_files(tree, pattern, recursive, include_dirs, exclude_patterns, respect_gitignore) ==
    LET exclusions == IF exclude_patterns.given THEN exclude_patterns.list
                      ELSE default_exclusions
        ignoring == gitignore_spec(tree, respect_gitignore)
        results == { relative_to(e.path) :
                       e \in { p \in all_paths(tree, pattern, recursive) :
                                 /\ ~should_exclude(p.path, exclusions, ignoring)
                                 /\ p.kind = "file" \/ (include_dirs /\ p.kind = "dir") } }
    IN  sorted(results)

Patterns == { <<"*">>, <<"*", ".py">> }

ListInit ==
    /\ FnIdleRest
    /\ fn_pc = "ready"
    /\ fn_args \in [tree : Trees,
                    pattern : Patterns,
                    recursive : BOOLEAN,
                    include_dirs : BOOLEAN,
                    exclude_patterns : ExcludePatterns,
                    respect_gitignore : BOOLEAN]
    /\ fn_ret = <<>>

ListFiles ==
    /\ FnFrame
    /\ fn_pc = "ready"
    /\ fn_ret' = list_files(fn_args.tree, fn_args.pattern, fn_args.recursive,
                            fn_args.include_dirs, fn_args.exclude_patterns,
                            fn_args.respect_gitignore)
    /\ fn_pc' = "listed"
    /\ UNCHANGED fn_args

ListNext == ListFiles

SpecList == ListInit /\ [][ListNext]_vars


\* ---- read_file: a line range of a file ----
MaxLines == 3

\* A file of n lines, line i holding i; f.readlines() gives them in order.
readlines(n) == [i \in 1..n |-> i]

\* An optional integer argument: absent (None), or a value.
Absent == [given |-> FALSE, value |-> 0]

LineArgs == {Absent} \cup { [given |-> TRUE, value |-> v] : v \in (0 - MaxLines - 1)..(MaxLines + 1) }

\* Python's truth of an Optional[int]: None and 0 are false.
IsTrue(arg) == arg.given /\ arg.value # 0

\* A slice bound of Python: a negative one counts from the end, and both are
\* clipped to the list.
SliceBound(i, n) ==
    IF i < 0 THEN (IF n + i < 0 THEN 0 ELSE n + i)
    ELSE IF i > n THEN n ELSE i

\* lines[start:end]
Slice(lines, start, end) ==
    SubSeq(lines, SliceBound(start, Len(lines)) + 1, SliceBound(end, Len(lines)))

read_file(n, start_line, end_line) ==
    LET lines == readlines(n)
        ranged == IF start_line.given \/ end_line.given
                  THEN LET start == IF IsTrue(start_line) THEN start_line.value - 1 ELSE 0
                           end == IF IsTrue(end_line) THEN end_line.value ELSE Len(lines)
                       IN  Slice(lines, start, end)
                  ELSE lines
    IN  [content |-> ranged, lines |-> Len(ranged)]

ReadInit ==
    /\ FnIdleRest
    /\ fn_pc = "ready"
    /\ fn_args \in [n : 0..MaxLines, start_line : LineArgs, end_line : LineArgs]
    /\ fn_ret = <<>>

ReadFile ==
    /\ FnFrame
    /\ fn_pc = "ready"
    /\ fn_ret' = <<read_file(fn_args.n, fn_args.start_line, fn_args.end_line)>>
    /\ fn_pc' = "read"
    /\ UNCHANGED fn_args

ReadNext == ReadFile

SpecRead == ReadInit /\ [][ReadNext]_vars


\* ---- summarize_history_if_needed: the history compactor ----
MaxHistory == 6

\* The messages a history is made of here: a request with a prompt of eight
\* characters, a response with a text of four and a tool call whose arguments
\* print as four, and a response whose text is empty. `content` and `args`
\* hold the length of str(part.content) and str(part.args).
HistoryMessages ==
    { [kind |-> "request",
       parts |-> << [part_kind |-> "user-prompt", content |-> 8, args |-> 0] >>],
      [kind |-> "response",
       parts |-> << [part_kind |-> "text", content |-> 4, args |-> 0],
                    [part_kind |-> "tool-call", content |-> 0, args |-> 4] >>],
      [kind |-> "response",
       parts |-> << [part_kind |-> "text", content |-> 0, args |-> 0] >>] }

Thresholds == {0, 3}

RECURSIVE SumChars(_, _)
SumChars(parts, with_args) ==
    IF parts = <<>> THEN 0
    ELSE Head(parts).content + (IF with_args THEN Head(parts).args ELSE 0)
            + SumChars(Tail(parts), with_args)

RECURSIVE total_chars(_)
total_chars(history) ==
    IF history = <<>> THEN 0
    ELSE SumChars(Head(history).parts, Head(history).kind = "response")
            + total_chars(Tail(history))

estimate_token_count(history) == total_chars(history) \div 4

\* a choice of recent messages that keeps them all
recent_messages_all(history) == history

\* message_history[-5:] if len(message_history) > 5 else message_history
recent_messages(history) ==
    IF Len(history) > 5
    THEN SubSeq(history, Len(history) - 4, Len(history))
    ELSE history

\* ModelRequest(parts=[SystemPromptPart(content="Previous conversation summary:\n" + summary)])
SummaryRequest(summary) ==
    [kind |-> "request",
     parts |-> << [part_kind |-> "system-prompt", content |-> <<"Previous conversation summary:", summary>>,
                   args |-> 0] >>]

CompactInit ==
    /\ FnIdleRest
    /\ fn_pc = "ready"
    /\ fn_args \in [message_history : SeqsUpTo(HistoryMessages, MaxHistory),
                    token_threshold : Thresholds]
    /\ fn_ret = <<>>

\* messaging.py:99-106: the history goes back as it is
CompactReturnsHistory ==
    /\ FnFrame
    /\ fn_pc = "ready"
    /\ \/ fn_args.message_history = <<>>
       \/ estimate_token_count(fn_args.message_history) < fn_args.token_threshold
    /\ fn_ret' = fn_args.message_history
    /\ fn_pc' = "returned"
    /\ UNCHANGED fn_args

\* messaging.py:108-139: the summarizer is built and its run awaited
CompactSummarize ==
    /\ FnFrame
    /\ fn_pc = "ready"
    /\ fn_args.message_history # <<>>
    /\ ~(estimate_token_count(fn_args.message_history) < fn_args.token_threshold)
    /\ fn_pc' = "summarizing"
    /\ UNCHANGED <<fn_args, fn_ret>>

\* messaging.py:140-163: the run gives its summary
CompactReturnsSummary ==
    /\ FnFrame
    /\ fn_pc = "summarizing"
    /\ fn_ret' = <<SummaryRequest("summary")>> \o recent_messages(fn_args.message_history)
    /\ fn_pc' = "returned"
    /\ UNCHANGED fn_args

\* messaging.py:140: the run raises, and so does the function
CompactRaises ==
    /\ FnFrame
    /\ fn_pc = "summarizing"
    /\ fn_pc' = "raised"
    /\ UNCHANGED <<fn_args, fn_ret>>

CompactNext ==
    \/ CompactReturnsHistory
    \/ CompactSummarize
    \/ CompactReturnsSummary
    \/ CompactRaises

SpecCompact == CompactInit /\ [][CompactNext]_vars


\* ---- the path argument of a tool wrapper ----
\* Longest path argument (in components) of a tool call.
MaxArgLen == 2

\* messaging.py:31; messaging_tools.py:36 holds the same directory
SANDBOX_DIR == AllowedRoots[1]

NoLinks == {}

\* messaging.py:50-67: the path is resolved as the process sees it (a relative
\* one from the working directory of the server) and must lie in the sandbox
validate_path_in_sandbox(file_path) ==
    LET resolved_path == Resolve(NoLinks, OriginalPath(file_path))
    IN  IF ~resolved_path.ok THEN Rejected("ValueError")
        ELSE IF IsRelativeTo(resolved_path.path, SANDBOX_DIR) THEN Accepted(resolved_path.path)
        ELSE Rejected("ValueError")

\* SANDBOX_DIR / file_path: an absolute operand replaces the left one
FullPath(file_path) ==
    [absolute |-> TRUE,
     parts |-> IF file_path.absolute THEN file_path.parts ELSE SANDBOX_DIR \o file_path.parts]

\* The wrappers with one path argument that they validate, and the tools they
\* call with it.
WrapperTools == FileTools \cup DirTools \cup CwdTools \cup {"run_tests_tool", "start_dev_server_tool"}

\* The argument has a default the wrapper replaces by the sandbox
\* (directory ".", cwd None).
HasDefault(tool) == tool \notin FileTools

NotGiven == [given |-> FALSE, absolute |-> FALSE, parts |-> <<>>]

PathArguments(tool) ==
    (IF HasDefault(tool) THEN {NotGiven} ELSE {})
    \cup [given : {TRUE}, absolute : BOOLEAN, parts : SeqsUpTo(Components, MaxArgLen)]

\* What a call of the wrapper comes to: the resolved path its validation
\* examined, the exception the validation raised, the path string handed to
\* the tool, and the place the tool works on (the tool, or the subprocess it
\* starts, resolves a relative path from the working directory of the server).
WrapperCall(checked, raised, called, handed) ==
    [checked |-> checked, raised |-> raised, called |-> called, handed |-> handed,
     place |-> IF called THEN Resolve(NoLinks, OriginalPath(handed)).path ELSE <<>>]

\* messaging.py:281-282, 318-319, 352-353, 389-394, 432-437, 481-486, 523-528,
\* 562-567, 628-629; messaging_tools.py:64-66, 112-114, 159-161, 211-219,
\* 267-275, 339-347, 393-401, 445-453, 526-528, 590-598
Wrapper(fam, tool, arg) ==
    IF ~arg.given
    THEN WrapperCall(<<>>, "none", TRUE, [absolute |-> TRUE, parts |-> SANDBOX_DIR])
    ELSE IF fam = "messaging"
    THEN LET v == validate_path_in_sandbox(arg)
         IN  WrapperCall(Resolve(NoLinks, OriginalPath(arg)).path, v.exc, v.ok,
                         [absolute |-> arg.absolute, parts |-> arg.parts])
    ELSE LET full_path == FullPath(arg)
             v == Validate(NoLinks, full_path)
         IN  WrapperCall(Resolve(NoLinks, full_path.parts).path, v.exc, v.ok, full_path)

WrapInit ==
    /\ FnIdleRest
    /\ fn_pc = "ready"
    /\ \E fam \in Families, tool \in WrapperTools :
          /\ tool \in ToolNames(fam)
          /\ \E arg \in PathArguments(tool) :
                fn_args = [family |-> fam, tool |-> tool, arg |-> arg]
    /\ fn_ret = <<>>

WrapperRuns ==
    /\ FnFrame
    /\ fn_pc = "ready"
    /\ fn_ret' = <<Wrapper(fn_args.family, fn_args.tool, fn_args.arg)>>
    /\ fn_pc' = "wrapped"
    /\ UNCHANGED fn_args

WrapNext == WrapperRuns

SpecWrap == WrapInit /\ [][WrapNext]_vars

(***************************************************************************)
(* Properties of the turn endpoint                                         *)
(***************************************************************************)
\* The frames of the turn: what was sent since the frame was received, without
\* the conversation_created notice and the bare error replies to a rejected
\* frame.
TurnEnvelopes == SelectSeq(sent, LAMBDA e : e.type \notin {None, "conversation_created"})

C1_Move(state, type) ==
    CASE state = "start" /\ type = "message" -> "body"
      [] state = "start" /\ type = "error" -> "end"
      [] state = "body" /\ type = "node_added" -> "body"
      [] state = "body" /\ type = "tool_start" -> "tool"
      [] state = "tool" /\ type = "tool_complete" -> "body"
      [] state = "body" /\ type \in {"message_complete", "error"} -> "end"
      [] OTHER -> "reject"

RECURSIVE C1_Run(_, _)
C1_Run(state, es) ==
    IF es = <<>> THEN state ELSE C1_Run(C1_Move(state, Head(es).type), Tail(es))

\* C1: the frames of a turn are a prefix of
\*   message (node_added | tool_start tool_complete)* message_complete
\* where an error frame may end the turn in place of message_complete: the turn
\* starts with the user message, a tool_start is followed at once by its
\* tool_complete and by no other frame, nothing follows the closing frame.
C1_EnvelopeGrammar == C1_Run("start", TurnEnvelopes) # "reject"

\* The frames of the turn with the given type, by position in `sent`.
FramesOf(type) == {i \in DOMAIN sent : sent[i].type = type}

C2_MessageFirst ==
    \A i \in FramesOf("message") :
        \A j \in FramesOf("tool_start") \cup FramesOf("tool_complete") \cup FramesOf("node_added")
                 \cup FramesOf("message_complete") : i < j

\* The frames of one type about one tool and one message among the first n.
C2_Before(n, type, e) ==
    {i \in FramesOf(type) : i <= n /\ sent[i].tool_name = e.tool_name /\ sent[i].message_id = e.message_id}

C2_StartBeforeComplete ==
    \A j \in FramesOf("tool_complete") :
        Cardinality(C2_Before(j, "tool_start", sent[j])) >= Cardinality(C2_Before(j, "tool_complete", sent[j]))

C2_CompleteLast ==
    \A k \in FramesOf("message_complete") :
        \A i \in DOMAIN sent : i # k => i < k

\* C2 as stated: message before every tool_start, tool_start before its
\* tool_complete, that tool_complete before every node_added of the same step,
\* all before message_complete.
C2_OriginalOrdering ==
    /\ C2_MessageFirst
    /\ C2_StartBeforeComplete
    /\ \A i \in FramesOf("tool_complete"), j \in FramesOf("node_added") :
          sent[i].message_id = sent[j].message_id /\ sent[i].step = sent[j].step => i < j
    /\ C2_CompleteLast

\* C2, amended: message before every tool_start; every tool_complete after the
\* tool_start of its call (a tool_start of its own for each tool_complete); the node_added that carries the non-tool
\* parts of a model response before the tool_start of the calls of that
\* response (the tools run in the next agent step); all before
\* message_complete.
C2_Ordering ==
    /\ C2_MessageFirst
    /\ C2_StartBeforeComplete
    /\ \A i \in FramesOf("tool_start"), j \in FramesOf("node_added") :
          sent[i].message_id = sent[j].message_id /\ sent[i].step = sent[j].step => j < i
    /\ C2_CompleteLast

C2_Witness ==
    /\ FramesOf("message_complete") # {}
    /\ \E j \in FramesOf("node_added"), i \in FramesOf("tool_start") :
          /\ sent[i].step = sent[j].step
          /\ sent[i].message_id = sent[j].message_id
          /\ i + 1 \in FramesOf("tool_complete")

\* C3: when a tool wrapper has ended, its tool_start is followed by exactly one
\* tool_complete, also when the underlying tool raised: then the wrapper caught
\* the exception, sent tool_complete with status error and returned the error
\* text.
C3_WrappersCatchEverything ==
    tool_result.tool # None /\ (\A k \in DOMAIN tool_pc : tool_pc[k] # "started") =>
        /\ \A i \in FramesOf("tool_start") :
              /\ i + 1 \in FramesOf("tool_complete")
              /\ sent[i + 1].tool_name = sent[i].tool_name
        /\ Cardinality(FramesOf("tool_complete")) = Cardinality(FramesOf("tool_start"))
        /\ tool_result.raised # "none" =>
              /\ tool_result.propagated = "none"
              /\ tool_result.returned = "error_text"
              /\ tool_result.status = "error"

\* C4: in the parts payload of every AGENT row written at Finalize, each
\* tool-call has a tool-return with the same tool_call_id.
C4_PersistedToolCallsMatched ==
    \A i \in DOMAIN messages :
        messages[i].role = "AGENT" /\ messages[i].parts.present =>
            ToolCallIds(messages[i].parts.parts) \subseteq ToolReturnIds(messages[i].parts.parts)

\* The handler of the endpoint has dealt with an exception of the turn that
\* inserted the AGENT row.
C5_TurnFailed ==
    /\ pc = "closed"
    /\ agent_message # 0
    /\ sent # <<>>
    /\ sent[Len(sent)].type = "error"

\* C5: after the error handling of a turn that failed once its AGENT row was
\* inserted, the database holds no AGENT row of that turn with empty content.
C5_NoEmptyAgentRowAfterError ==
    C5_TurnFailed =>
        ~\E i \in DOMAIN messages :
            /\ messages[i].id = agent_message
            /\ messages[i].role = "AGENT"
            /\ messages[i].content = ""

(***************************************************************************)
(* C6: the registry holds process_id only if start_background_process saw  *)
(* the child alive at its post-launch check: once no start call for the    *)
(* entry's child is still waiting for its check, every registered child    *)
(* was seen alive; in particular after a start whose child exited before   *)
(* the check the registry has no entry for that process_id.                *)
(***************************************************************************)
C6_StartInFlight(pid) == \E c \in Callers : call_pc[c] = "start_sleep" /\ call_proc[c] = pid

C6_RegistryOnlyVerified ==
    \A i \in ProcIds :
        (registry[i] # 0 /\ ~C6_StartInFlight(registry[i])) => registry[i] \in verified

(***************************************************************************)
(* C7: validate returns a path only when the fully resolved path is an     *)
(* allowed root or component-wise below one, and then returns exactly the  *)
(* resolved path; a sibling sharing a string prefix with the root is       *)
(* rejected; every rejection, and a failed resolution, is a ValueError     *)
(* (InvalidPath) with no path returned.                                    *)
(***************************************************************************)
C7_Below(path, root) ==
    /\ Len(path) >= Len(root)
    /\ \A i \in DOMAIN root : path[i] = root[i]

C8_EscapingLinkAt(links, path, i) ==
    /\ path[i] # ".."
    /\ LET par == Resolve(links, SubSeq(path, 1, i - 1))
       IN  /\ par.ok
           /\ LinkAt(links, Append(par.path, path[i]))
           /\ \E r \in DOMAIN AllowedRoots : C7_Below(Append(par.path, path[i]), AllowedRoots[r])
           /\ LET target == Resolve(links, Append(par.path, path[i]))
              IN  ~target.ok \/ ~\E r \in DOMAIN AllowedRoots : C7_Below(target.path, AllowedRoots[r])

C8_HasEscapingLink(links, path) == \E i \in DOMAIN path : C8_EscapingLinkAt(links, path, i)

C8_RejectsEscapingLinks ==
    val_pc = "done" =>
        (C8_HasEscapingLink(val_links, OriginalPath(val_in)) => ~val_res.ok)

C8_LinksAboveRootNeverReject ==
    val_pc = "done" =>
        LET resolved == Resolve(val_links, OriginalPath(val_in))
        IN  (resolved.ok /\ IsWithinAllowedRoots(resolved.path) /\ ~val_res.ok)
                => C8_HasEscapingLink(val_links, OriginalPath(val_in))

C8_SymlinkPolicy == C8_RejectsEscapingLinks /\ C8_LinksAboveRootNeverReject

\* C9: an underlying tool does I/O with a path argument only after the wrapper's
\* validation of that argument succeeded, so a path the validator rejects never
\* reaches a tool; a call whose validation fails does no I/O.
C9_PathsValidatedBeforeIO == \A r \in io : r.validated \/ r.value # "outside"


(***************************************************************************)
(* C10: decoding an AGENT row with structured parts yields one response    *)
(* whose tool-call parts all carry an id that a tool-return part of the    *)
(* row carries too; the response is the row's parts in order without the   *)
(* unmatched tool-calls, or, when nothing remains, one text part equal to  *)
(* the row's content.                                                      *)
(***************************************************************************)
C10_Matched(row, p) ==
    p.part_kind # "tool-call"
    \/ \E q \in Range(row.parts.parts) : q.part_kind = "tool-return" /\ q.tool_call_id = p.tool_call_id

C10_SameContent(d, p) ==
    /\ p.part_kind = d.part_kind
    /\ p.tool_call_id = d.tool_call_id
    /\ p.tool_name = d.tool_name
    /\ p.content = d.content

C11_ToolLocalFailure ==
    /\ tool_result.tool # None
    /\ \/ tool_result.raised \in {"Exception", "ModelRetry"}
       \/ tool_result.raised = "ValueError" /\ PathArgs(tool_result.tool) = {}

\* C11: a failure of the underlying tool never ends the turn: the wrapper
\* returns it to the agent as the textual result, no exception leaves the
\* wrapper, and the connection stays registered with the step loop going on.
C11_ToolFailureKeepsTurn ==
    C11_ToolLocalFailure =>
        /\ tool_result.propagated = "none"
        /\ tool_result.returned = "error_text"
        /\ \A k \in DOMAIN tool_pc : tool_pc[k] # "raised"

\* What every run of the endpoint's `except Exception` clause does: the error
\* frame, if its send did not fail, is the last frame and the id it carries is
\* the local conversation_id; nothing uncommitted is left; the connection is
\* removed from the manager and the endpoint has returned.
C12_HandlerEffects ==
    /\ handled.error_sent => sent # <<>> /\ sent[Len(sent)] = ErrorEnvelope
    /\ handled.conversation_id = conversation_id
    /\ pending = <<>>
    /\ WS \notin active_connections
    /\ pc = "closed"

C13_InvalidFrameRead ==
    /\ pc = "receive"
    /\ handled' = handled
    /\ user_content' = "" \/ (conversation_id' # 0 /\ conversation_id' \notin conversations')

\* C13: a frame without content is answered with the error `Message content is
\* required`, a frame naming a conversation that does not exist with
\* `Conversation N not found`; no row is inserted, no agent run starts, the
\* connection stays registered and the endpoint reads the next frame.
C13_InvalidFrameRejected ==
    [][C13_InvalidFrameRead =>
          /\ sent' = <<IF user_content' = "" THEN ErrorReply("Message content is required", 0)
                       ELSE ErrorReply("Conversation N not found", conversation_id')>>
          /\ UNCHANGED <<storeVars, runVars, agent_message, message_history, active_connections>>
          /\ WS \in active_connections'
          /\ pc' = "receive"]_vars

C13_Witness ==
    /\ pc = "receive"
    /\ sent = <<ErrorReply("Message content is required", 0)>>
    /\ Len(messages) = 2
    /\ messages[2].content = "done"
    /\ WS \in active_connections

(***************************************************************************)
(* Properties of the background-process registry                           *)
(***************************************************************************)
\* The call that returned last is a stop of `id` that succeeded.
C14_StopSucceeded(id) == call_res.op = "stop" /\ call_res.raised = "none" /\ call_res.id = id

\* The entry of `id` was stored by a start that has not returned yet.
C14_StartedSince(id) ==
    \E c \in Callers : call_pc[c] = "start_sleep" /\ call_id[c] = id /\ call_proc[c] = registry[id]

\* C14: once stop_background_process(id) has returned successfully, the registry
\* has no entry for id and the listing does not mention id, until a start with
\* that id stores a new entry.
C14_StoppedIsGone ==
    \A id \in ProcIds :
        C14_StopSucceeded(id) =>
            \/ registry[id] = 0 /\ id \notin Listing
            \/ C14_StartedSince(id)

C14_Witness ==
    /\ C14_StopSucceeded("p1")
    /\ registry["p1"] = 0
    /\ "p1" \notin Listing
    /\ \E pid \in verified : procs[pid] = "exited"

\* C15: when the child has exited by the liveness check and its output holds a
\* transient marker, start_background_process raises the retry signal
\* (ModelRetry), which the caller can tell from the Exception raised when no
\* marker is present.
C15_TransientIsRetryable ==
    (call_res.op = "start" /\ call_res.inner = "ModelRetry") => call_res.raised = "ModelRetry"

(***************************************************************************)
(* Properties of the rows a turn persists                                  *)
(***************************************************************************)
\* The turn has run to its end: message_complete is the last frame sent.
C16_Completed == sent # <<>> /\ sent[Len(sent)].type = "message_complete"

C16_Streamed == {"node_added", "tool_start", "tool_complete"}

\* C16: a turn that completes without error has added exactly two rows to its
\* conversation, the USER row holding the prompt and the AGENT row; the AGENT row
\* is committed with content = the final output and parts = {parts: the
\* accumulated parts, model_name, timestamp}; message_complete is sent only after
\* that commit and carries the id used in the streamed envelopes of the turn.
C16_CompletedTurnRows ==
    C16_Completed =>
        LET k == agent_message
        IN  /\ k = Len(messages)
            /\ k >= 2
            /\ messages[k - 1] = Row(k - 1, conversation_id, "USER", user_content, NoParts)
            /\ messages[k] = Row(k, conversation_id, "AGENT", final_output,
                                 Payload(all_parts_for_db, "m", "ts"))
            /\ final_output = RunOutput(model_response)
            /\ pending = <<>>
            /\ sent[Len(sent)].message_id = k
            /\ \A i \in DOMAIN sent :
                  sent[i].type \in C16_Streamed => sent[i].message_id = k

C16_Witness ==
    /\ C16_Completed
    /\ final_output = "done"
    /\ Len(all_parts_for_db) >= 2
    /\ messages[agent_message].parts.parts = all_parts_for_db
    /\ \E i \in DOMAIN sent : sent[i].type = "tool_complete"

(***************************************************************************)
(* Properties of the agent's retries                                       *)
(***************************************************************************)
\* The run was ended because a tool call was turned down with no retry left.
C17_BudgetExhausted == pc = "closed" /\ \E k \in DOMAIN tool_pc : tool_pc[k] = "rejected"

\* C17: the agent retries a failing tool call up to 10 times within a turn; the
\* turn is ended for it only once 10 retries are used up.
C17_TenRetries == C17_BudgetExhausted => retries >= 10

(***************************************************************************)
(* Round trip of the persisted parts                                       *)
(***************************************************************************)
\* A parts list in which every tool-call is matched by a tool-return.
C18_WellFormed(ds) ==
    /\ \A d \in Range(ds) : d.part_kind \in {"text", "thinking", "tool-call", "tool-return"}
    /\ \A d \in Range(ds) : d.part_kind = "tool-call" =>
          \E e \in Range(ds) : e.part_kind = "tool-return" /\ e.tool_call_id = d.tool_call_id

\* C18: decoding a well-formed persisted AGENT parts list and encoding the
\* decoded parts again as the endpoint encodes the parts of a response gives the
\* original list, field for field.
C18_RoundTripIsIdentity ==
    (/\ dec_pc = "done"
     /\ dec_rows[1].role = "AGENT"
     /\ dec_rows[1].parts.present
     /\ C18_WellFormed(dec_rows[1].parts.parts)) =>
        /\ Len(dec_out) = 1
        /\ MapSeq(PartDict, dec_out[1].parts) = dec_rows[1].parts.parts

(***************************************************************************)
(* Properties of the persisted parts payload                               *)
(***************************************************************************)
\* No persisted payload, and no list about to be persisted, holds a prompt part.
C19_NoPrompts ==
    /\ \A d \in Range(all_parts_for_db) : ~IsPrompt(d)
    /\ \A i \in DOMAIN messages : \A d \in Range(messages[i].parts.parts) : ~IsPrompt(d)

\* A step of the loop: one that brings a response appends the dicts of its
\* parts other than prompts, each once and in the order of the response; any
\* other step of the run leaves the list alone.
C19_Step ==
    pc = "step" =>
        IF next_node = "ModelRequestNode" /\ next_node' = "CallToolsNode"
        THEN all_parts_for_db' =
                all_parts_for_db
                \o MapSeq(PartDict, SelectSeq(model_response', LAMBDA p : ~IsPrompt(p)))
        ELSE all_parts_for_db' = all_parts_for_db

\* The payload committed at the end of the turn is the accumulated list.
C19_Persisted ==
    pc = "complete" => messages[agent_message].parts = Payload(all_parts_for_db, "m", "ts")

C20_Types ==
    {"conversation_created", "message", "message_part", "node_added", "text_chunk",
     "tool_start", "tool_complete", "message_complete", "error"}

\* C20: every frame the server sends carries a type out of the table of
\* envelopes (the replies to an invalid frame and to an unknown conversation
\* have type error), and every tool_complete carries a status out of success,
\* error, cancelled.
C20_FramesTabulated ==
    \A i \in DOMAIN sent :
        /\ sent[i].type \in C20_Types
        /\ sent[i].type = "tool_complete" => sent[i].status \in {"success", "error", "cancelled"}

(***************************************************************************)
(* Serialization of the tool invocations                                   *)
(***************************************************************************)
\* C21: within one turn the tool invocations are serialized: no tool_start is
\* sent while an earlier tool call of the turn has sent tool_start and not yet
\* tool_complete, also when one model response carries several tool calls.
C21_ToolsSerialized ==
    \A j \in FramesOf("tool_start") :
        Cardinality({i \in FramesOf("tool_start") : i < j})
            = Cardinality({i \in FramesOf("tool_complete") : i < j})

(***************************************************************************)
(* Properties of the connections                                           *)
(***************************************************************************)
\* The frame ends the handling of the frame read for its turn.
C22_Ends(f) == f.type \in {"message_complete", "error_reply", "error"}

\* C22: on one connection at most one turn is in progress: a frame is read only
\* after the turn of the previous frame sent message_complete or was given up
\* with an error, so the frames of a connection come turn by turn; the turns of
\* different connections interleave.
C22_OneTurnPerConnection ==
    \A c \in DOMAIN conn_sent :
        \A i, j \in DOMAIN conn_sent[c] :
            i < j =>
                /\ conn_sent[c][i].turn <= conn_sent[c][j].turn
                /\ conn_sent[c][i].turn < conn_sent[c][j].turn =>
                      \E k \in i..(j - 1) :
                          /\ conn_sent[c][k].turn = conn_sent[c][i].turn
                          /\ C22_Ends(conn_sent[c][k])

\* c1 is in its second turn while c2 is in the middle of a turn of its own
C22_Witness ==
    /\ conn_pc = [c \in Conns |-> "turn"]
    /\ conn_turn["c1"] = 2
    /\ Frame(1, "message_complete") \in Range(conn_sent["c1"])
    /\ Frame(2, "node_added") \in Range(conn_sent["c1"])
    /\ Frame(1, "node_added") \in Range(conn_sent["c2"])

\* A connection's run reached a handler because its client is gone.
C23_Step ==
    \A c \in DOMAIN conn_pc :
        conn_pc'[c] = "disconnected" =>
            /\ conn_sent'[c] = conn_sent[c]
            /\ conn_pc[c] # "disconnected" => registry' = registry /\ procs' = procs

\* C23: when the client disconnects, while a frame is awaited or in the middle
\* of a turn, no further frame is sent on the connection, the connection is
\* removed from the connection manager, and the registry of background
\* processes is left as it is: every process started earlier is still
\* registered.
C23_DisconnectCleansUp ==
    /\ [](\A c \in DOMAIN conn_pc : conn_pc[c] = "disconnected" => c \notin active_connections)
    /\ [][C23_Step]_vars

\* c1 was disconnected in the middle of a turn that had started a process
C23_Witness ==
    /\ conn_pc["c1"] = "disconnected"
    /\ conn_sent["c1"] = <<Frame(1, "message"), Frame(1, "node_added")>>
    /\ registry["p1"] # 0
    /\ procs[registry["p1"]] = "running"
    /\ "c2" \in active_connections

(***************************************************************************)
(* Properties of the file tools                                            *)
(***************************************************************************)
\* The number of places at which old occurs in s.
C24_Occurrences(s, old) ==
    Cardinality({i \in 1..(Len(s) + 1) : i + Len(old) - 1 <= Len(s) /\ SubSeq(s, i, i + Len(old) - 1) = old})

\* C24: edit_file replaces exactly the first occurrence of old and leaves every
\* other character of the file as it was; when old does not occur it fails with
\* Could not find old_content and the file is unchanged. So when new does not
\* contain old and old occurred once, the same edit again fails and the file
\* still holds the result of the first edit.
C24_EditReplacesFirstOnly ==
    LET file == fn_args.file
        old == fn_args.old_content
        new == fn_args.new_content
        i == Find(file, old)
    IN  /\ fn_pc \in {"done", "repeated"} =>
              IF i = 0
              THEN fn_ret[1] = [raised |-> "Could not find old_content", file |-> file]
              ELSE fn_ret[1] = [raised |-> "none",
                                file |-> SubSeq(file, 1, i - 1) \o new \o SubSeq(file, i + Len(old), Len(file))]
        /\ (fn_pc = "repeated" /\ C24_Occurrences(file, old) = 1 /\ Find(new, old) = 0) =>
              fn_ret[2] = [raised |-> "Could not find old_content", file |-> fn_ret[1].file]

\* ---- C25 ----
\* The exclusion list in force for a call: the default list when
\* exclude_patterns is absent, the list given otherwise.
C25_Active(args) ==
    IF args.exclude_patterns.given THEN args.exclude_patterns.list
    ELSE default_exclusions

\* The entry of the tree that a returned string names.
C25_Entry(args, str) == CHOOSE e \in args.tree : relative_to(e.path) = str

C25_Sorted(strs) ==
    \A i, j \in DOMAIN strs : i < j => StrLess(strs[i], strs[j])

\* C25: the listing is made of paths of the tree relative to the directory,
\* in lexicographically sorted order; no returned path has a component that
\* matches a pattern of the exclusion list in force; and without
\* include_dirs every returned path is a file.
C25_ListingSortedAndScreened ==
    fn_pc = "listed" =>
        /\ C25_Sorted(fn_ret)
        /\ \A i \in DOMAIN fn_ret :
              /\ \E e \in fn_args.tree : relative_to(e.path) = fn_ret[i]
              /\ LET e == C25_Entry(fn_args, fn_ret[i])
                     active == C25_Active(fn_args)
                 IN  /\ \A k \in DOMAIN active : \A n \in DOMAIN e.path :
                            ~GlobMatch(active[k], e.path[n])
                     /\ ~fn_args.include_dirs => e.kind = "file"

\* C25, its example: node_modules/x, src/a.py and src/b.pyc list as src/a.py.
C25_Example ==
    ( /\ fn_pc = "listed"
      /\ fn_args.tree = { e \in Entries : e.path[1] \in {node_modules, src} }
      /\ fn_args.pattern = <<"*">>
      /\ fn_args.recursive
      /\ ~fn_args.include_dirs
      /\ ~fn_args.exclude_patterns.given )
    => fn_ret = << relative_to(<<src, a_py>>) >>

\* ---- C26 ----
\* Lines first..last of a file of n lines, 1-based and inclusive, clipped to
\* the file.
C26_Range(n, first, last) ==
    LET lo == IF first < 1 THEN 1 ELSE first
        hi == IF last > n THEN n ELSE last
    IN  [i \in 1..(IF hi < lo THEN 0 ELSE hi - lo + 1) |-> lo + i - 1]

\* C26: read_file returns exactly lines start_line..end_line, 1-based and
\* inclusive, a missing start_line meaning 1 and a missing end_line the last
\* line, clipped or empty for out-of-range integers, and `lines` counts the
\* lines returned.
C26_ReadsRequestedRange ==
    fn_pc = "read" =>
        LET first == IF fn_args.start_line.given THEN fn_args.start_line.value ELSE 1
            last == IF fn_args.end_line.given THEN fn_args.end_line.value ELSE fn_args.n
        IN  /\ fn_ret[1].content = C26_Range(fn_args.n, first, last)
            /\ fn_ret[1].lines = Len(fn_ret[1].content)

\* ---- C27 ----
\* C27: no row of the store ever holds a content longer than the bound of
\* MessageBase.content: the insert of the USER row and the update of the AGENT
\* row are turned down before the write when the content is over the bound.
C27_ContentBounded ==
    \A i \in DOMAIN messages : messages[i].content # Oversize

\* ---- C28 ----
\* The last five messages of a history, all of them when it has five or fewer.
C28_LastFive(h) ==
    [i \in 1..(IF Len(h) > 5 THEN 5 ELSE Len(h)) |->
        h[(IF Len(h) > 5 THEN Len(h) - 5 ELSE 0) + i]]

C28_IsSummary(m) ==
    /\ m.kind = "request"
    /\ Len(m.parts) = 1
    /\ m.parts[1].part_kind = "system-prompt"
    /\ m.parts[1].content[2] = "summary"

C28_Compacted(h) ==
    /\ Len(fn_ret) = 1 + Len(C28_LastFive(h))
    /\ C28_IsSummary(fn_ret[1])
    /\ Tail(fn_ret) = C28_LastFive(h)

C29_FromSandbox(parts) == Resolve(NoLinks, SANDBOX_DIR \o parts).path

\* C29: in every tool wrapper a relative path argument is resolved against the
\* sandbox root, not the working directory of the server, before it is
\* validated and before it is handed to the tool, and an omitted cwd is
\* replaced by the sandbox root.
C29_ResolvedAgainstSandbox ==
    fn_pc = "wrapped" =>
        LET arg == fn_args.arg
            call == fn_ret[1]
        IN  /\ ~arg.given => call.called /\ call.place = SANDBOX_DIR
            /\ (arg.given /\ ~arg.absolute) =>
                  /\ call.checked = C29_FromSandbox(arg.parts)
                  /\ call.called => call.place = C29_FromSandbox(arg.parts)

\* ---- C30 ----
\* The rows of the turn's conversation that the store held before the turn
\* inserted its USER row, in the order of their creation.
C30_Prior ==
    SelectSeq(SubSeq(messages, 1, Len(messages) - 1),
              LAMBDA m : m.conversation_id = conversation_id)

\* The message a row decodes to.
C30_Decodes(row, m) ==
    IF row.role = "USER"
    THEN /\ m.kind = "request"
         /\ Len(m.parts) = 1
         /\ m.parts[1].part_kind = "user-prompt"
         /\ m.parts[1].content = row.content
    ELSE /\ m.kind = "response"
         /\ ~row.parts.present =>
               /\ Len(m.parts) = 1
               /\ m.parts[1].part_kind = "text"
               /\ m.parts[1].content = row.content

\* C30: the history decoded for a turn has one message per row that the
\* turn's conversation held before the turn, in creation order, without the
\* USER row the turn inserted and without the rows of other conversations: a
\* request with a single user-prompt part for a USER row, a response for an
\* AGENT row, with a single text part equal to the content when the row has no
\* structured parts.
C30_HistoryOfTurn ==
    pc = "start_agent" =>
        /\ messages[Len(messages)].role = "USER"
        /\ Len(message_history) = Len(C30_Prior)
        /\ \A i \in DOMAIN message_history : C30_Decodes(C30_Prior[i], message_history[i])

C30_Witness ==
    /\ pc = "start_agent"
    /\ Len(message_history) = 2
    /\ \E i, j \in DOMAIN C30_Prior : C30_Prior[i].role = "USER" /\ C30_Prior[j].role = "AGENT"
    /\ \E i \in DOMAIN messages : messages[i].conversation_id # conversation_id

\* ---- C31 ----
\* The positions of the node_added frames of the turn in progress.
C31_Nodes == {j \in DOMAIN sent : sent[j].type = "node_added"}

C31_WellFormed(f) ==
    /\ f.node.parts # <<>>
    /\ \A i \in DOMAIN f.node.parts : f.node.parts[i].part_kind \notin {"tool-call", "tool-return"}
    /\ f.node.id = <<"step-", f.node.step>>
    /\ f.node.step = f.step

C31_Increasing ==
    \A i, j \in C31_Nodes : i < j => sent[i].step < sent[j].step

\* C31 as stated: as below, and the node_added frames of a turn are numbered
\* from 1.
C31_OriginalNodes ==
    /\ \A j \in C31_Nodes : C31_WellFormed(sent[j])
    /\ C31_Increasing
    /\ \A j \in C31_Nodes : (\A i \in C31_Nodes : j <= i) => sent[j].step = 1

\* C31: every node_added frame of a turn has a non-empty parts list without
\* tool-call and tool-return parts and the id step-N of its step N; the steps
\* of successive node_added frames of a turn strictly increase; a step is the
\* number of graph nodes the turn has run, counted from 1 in every turn, so
\* the frame of the turn's k-th model response carries step 2k.
C31_NodesOfTurn ==
    /\ \A j \in C31_Nodes : C31_WellFormed(sent[j])
    /\ C31_Increasing
    /\ \A j \in C31_Nodes :
          /\ sent[j].step >= 1
          /\ \E k \in 1..requests : sent[j].step = 2 * k

\* A second turn, after a first of two model requests, streams its first node.
C31_Witness ==
    /\ Len(messages) = 4
    /\ agent_message = 4
    /\ \E d \in Range(messages[2].parts.parts) : d.part_kind = "tool-call"
    /\ \E j \in C31_Nodes : sent[j].step = 2 /\ sent[j].message_id = 4

\* ---- C32 ----
\* A step in which a start stores its entry.
C32_StartStep == \E c \in Callers : call_pc[c] = "idle" /\ call_pc'[c] = "start_sleep"

\* A step of a stop call of caller c: one of its waits ends, or its lookup
\* is made.
C32_StopStep(c) ==
    \/ call_pc[c] \in {"stop_term", "stop_kill"} /\ call_pc'[c] # call_pc[c]
    \/ call_pc[c] = "idle" /\ call_pc'[c] = "stop_term"
    \/ /\ \A d \in Callers : call_pc'[d] = call_pc[d]
       /\ call_pc[c] = "idle"
       /\ call_res'.op = "stop" /\ call_res'.caller = c
       /\ call_res' # call_res \/ registry' # registry

C32_Step ==
    /\ (registry' # registry /\ ~C32_StartStep) =>
          \E id \in ProcIds :
             /\ registry[id] # 0
             /\ registry' = [registry EXCEPT ![id] = 0]
             /\ call_res'.op = "stop" /\ call_res'.id = id /\ call_res'.raised = "none"
    /\ \A c \in Callers :
          /\ (C32_StopStep(c) /\ call_pc'[c] = "idle" /\ call_res'.raised # "none")
                => registry' = registry
          /\ (C32_StopStep(c) /\ call_pc'[c] = "stop_kill")
                => call_pc[c] = "stop_term" /\ procs[call_proc[c]] = "running"
          /\ (C32_StopStep(c) /\ call_pc'[c] = "idle" /\ call_res'.raised = "ModelRetry")
                => call_pc[c] = "stop_kill" /\ procs[call_proc[c]] = "running"

\* C32: a stop changes the registry only by removing its id, in the step in
\* which it returns successfully; it goes on to the hard kill only when the
\* child has not exited in the grace period after termination, raises the
\* retryable error only when the child is alive after the grace period of the
\* hard kill, and leaves the registry as it is when it raises.
C32_StopFrameEffect == [][C32_Step]_vars

\* A stop gave up after the hard kill while another process is registered too:
\* both entries are still there.
C32_Witness ==
    /\ call_res.op = "stop"
    /\ call_res.raised = "ModelRetry"
    /\ \A id \in ProcIds : registry[id] # 0

\* ---- run_command and run_git_command ----
\* A command as the shell runs it: whether the shell could be launched at all
\* (a cwd that does not exist fails the launch), whether the child finishes
\* within the timeout, the exit code and the two streams it leaves, and
\* whether the streams decode as UTF-8. A message is the sequence of the
\* pieces its f-string is made of.
ExitCodes == {0, 1, 128}

Streams == {"", "text"}

Commands ==
    [tool : {"run_command", "run_git_command"},
     launches : BOOLEAN, finishes : BOOLEAN, decodes : BOOLEAN,
     return_code : ExitCodes, stdout : Streams, stderr : Streams]

command_of(a) == IF a.tool = "run_git_command" THEN <<"git ", "command">> ELSE <<"command">>

CommandResult(stdout, stderr, return_code, command) ==
    [stdout |-> stdout, stderr |-> stderr, return_code |-> return_code, command |-> command]

Outcome(child, raised, message, value) ==
    [child |-> child, raised |-> raised, message |-> message, value |-> value]

\* `except Exception as e: raise Exception(f"Error running command ...")`
ErrorRunning(a, child, inner) ==
    Outcome(child, TRUE, <<"Error running command '", command_of(a), "': ">> \o inner, None)

\* A mutant of communicate_timeout: the killed child reported through a result.
communicate_timeout_result(a) ==
    Outcome("killed", FALSE, <<>>, CommandResult("", "", 137, command_of(a)))

\* `except asyncio.TimeoutError: process.kill(); raise Exception(...)`
communicate_timeout(a) ==
    ErrorRunning(a, "killed", <<"Command timed out after ", "60", " seconds: ", command_of(a)>>)

\* run_command from the end of communicate() on.
run_command(a) ==
    IF ~a.finishes THEN communicate_timeout(a)
    ELSE IF ~a.decodes THEN ErrorRunning(a, "exited", <<"'utf-8' codec can't decode">>)
    ELSE Outcome("exited", FALSE, <<>>,
                 CommandResult(a.stdout, a.stderr, a.return_code, command_of(a)))

\* run_git_command on what run_command gave it.
run_git_command(o) ==
    IF o.raised THEN o
    ELSE IF o.value.return_code # 0
         THEN Outcome(o.child, TRUE, <<"Git command failed: ", o.value.stderr>>, None)
    ELSE Outcome(o.child, FALSE, <<>>, o.value.stdout)

CmdInit ==
    /\ FnIdleRest
    /\ fn_pc = "ready"
    /\ fn_args \in Commands
    /\ fn_ret = <<>>

\* create_subprocess_shell: the child runs, or the launch raises.
CmdLaunch ==
    /\ FnFrame
    /\ fn_pc = "ready"
    /\ IF fn_args.launches
       THEN /\ fn_pc' = "communicate"
            /\ fn_ret' = <<Outcome("running", FALSE, <<>>, None)>>
       ELSE /\ fn_pc' = "done"
            /\ fn_ret' = <<ErrorRunning(fn_args, "none", <<"No such file or directory">>)>>
    /\ UNCHANGED fn_args

\* wait_for(process.communicate(), timeout) ends, one way or the other.
CmdCommunicate ==
    /\ FnFrame
    /\ fn_pc = "communicate"
    /\ fn_ret' = <<IF fn_args.tool = "run_git_command"
                   THEN run_git_command(run_command(fn_args))
                   ELSE run_command(fn_args)>>
    /\ fn_pc' = "done"
    /\ UNCHANGED fn_args

CmdNext == CmdLaunch \/ CmdCommunicate

SpecCmd == CmdInit /\ [][CmdNext]_vars

\* ---- C33 ----
C33_Done == fn_pc = "done" /\ fn_args \in Commands /\ fn_args.launches

C33_ExitedNonZero ==
    /\ C33_Done
    /\ fn_args.tool = "run_git_command"
    /\ fn_args.finishes /\ fn_args.decodes
    /\ fn_args.return_code # 0

\* run_command: a command that did not finish within the timeout ends with the
\* child killed and an error raised, and a CommandResult is returned only for
\* a child that exited, with its exit code.
C33_TimeoutRaises ==
    C33_Done =>
        /\ ~fn_args.finishes => fn_ret[1].raised /\ fn_ret[1].child = "killed"
        /\ (fn_args.tool = "run_command" /\ ~fn_ret[1].raised) =>
              /\ fn_ret[1].child = "exited"
              /\ fn_ret[1].value = CommandResult(fn_args.stdout, fn_args.stderr,
                                                 fn_args.return_code, command_of(fn_args))
        /\ (fn_args.tool = "run_git_command" /\ ~fn_ret[1].raised) =>
              /\ fn_ret[1].child = "exited"
              /\ fn_args.return_code = 0
              /\ fn_ret[1].value = fn_args.stdout
        /\ C33_ExitedNonZero => fn_ret[1].raised

\* C33 as stated: run_command never reports a timed-out command through a
\* result (the child is killed and an error is raised; a CommandResult comes
\* only from a child that exited on its own), and run_git_command returns
\* stdout only for exit code 0 and otherwise raises an error whose message is
\* the command's stderr.
C33_OriginalCommands ==
    /\ C33_TimeoutRaises
    /\ C33_ExitedNonZero => fn_ret[1].message = <<fn_args.stderr>>

\* C33 amended: as above, but the error of a non-zero exit carries the stderr
\* after the prefix "Git command failed: ".
C33_Commands ==
    /\ C33_TimeoutRaises
    /\ C33_ExitedNonZero => fn_ret[1].message = <<"Git command failed: ", fn_args.stderr>>

C33_Witness ==
    /\ C33_ExitedNonZero
    /\ fn_args.stderr = "text"
    /\ fn_ret[1].raised
    /\ fn_ret[1].message = <<"Git command failed: ", "text">>

\* ---- search_in_files ----
\* A line as readlines() gives it: a sequence of characters that ends with its
\* newline. A file is its lines, and whether open() and the decoding succeed.
Unreadable == [readable |-> FALSE, lines |-> <<>>]

Readable(lines) == [readable |-> TRUE, lines |-> lines]

LineTexts ==
    { <<"\n">>, <<"a", "\n">>, <<"a", " ", "\n">>, <<" ", "a", "\n">>, <<"b", "\n">> }

FileTexts ==
    {<<>>} \cup {<<l>> : l \in LineTexts} \cup {<<l, m>> : l, m \in LineTexts}

SearchPatterns == { <<>>, <<"a">>, <<"a", " ">>, <<"b">>, <<"a", "\n">> }

\* The files rglob(file_pattern) finds under the directory.
FoundFiles == {"one.py", "two.py"}

SearchArgs ==
    { [pattern |-> p,
       files |-> [f \in FoundFiles |-> IF f = "one.py" THEN one ELSE two]] :
         p \in SearchPatterns,
         one \in {Readable(t) : t \in FileTexts} \cup {Unreadable},
         two \in {Unreadable, Readable(<<>>), Readable(<< <<"a", " ", "\n">> >>),
                  Readable(<< <<"b", "\n">>, <<"a", "\n">> >>)} }

\* `pattern in line`
In(pattern, line) ==
    \E i \in 0..(Len(line) - Len(pattern)) : SubSeq(line, i + 1, i + Len(pattern)) = pattern

Whitespace == {" ", "\n", "\t", "\r"}

\* str.rstrip(): the line without the whitespace it ends with.
RECURSIVE rstrip(_)
rstrip(line) ==
    IF line # <<>> /\ line[Len(line)] \in Whitespace
    THEN rstrip(SubSeq(line, 1, Len(line) - 1))
    ELSE line

\* The `matches` list of one file.
RECURSIVE matches_from(_, _, _)
matches_from(pattern, lines, i) ==
    IF i > Len(lines) THEN <<>>
    ELSE (IF In(pattern, lines[i])
          THEN << [line_number |-> i, content |-> rstrip(lines[i])] >>
          ELSE <<>>) \o matches_from(pattern, lines, i + 1)

search_in_files(pattern, files) ==
    LET kept == {f \in DOMAIN files :
                    /\ files[f].readable
                    /\ matches_from(pattern, files[f].lines, 1) # <<>>}
    IN  [f \in kept |-> matches_from(pattern, files[f].lines, 1)]

SearchInit ==
    /\ FnIdleRest
    /\ fn_pc = "ready"
    /\ fn_args \in SearchArgs
    /\ fn_ret = <<>>

SearchInFiles ==
    /\ FnFrame
    /\ fn_pc = "ready"
    /\ fn_ret' = <<search_in_files(fn_args.pattern, fn_args.files)>>
    /\ fn_pc' = "searched"
    /\ UNCHANGED fn_args

SearchNext == SearchInFiles

SpecSearch == SearchInit /\ [][SearchNext]_vars

\* ---- C34 ----
C34_Searched == fn_pc = "searched" /\ fn_args \in SearchArgs

\* The line without its trailing newline.
C34_Stripped(line) ==
    IF line # <<>> /\ line[Len(line)] = "\n" THEN SubSeq(line, 1, Len(line) - 1) ELSE line

C34_MatchingLines(f) ==
    {i \in 1..Len(fn_args.files[f].lines) : In(fn_args.pattern, fn_args.files[f].lines[i])}

C34_Keys ==
    {f \in FoundFiles : fn_args.files[f].readable /\ C34_MatchingLines(f) # {}}

\* The keys and the line numbers of the result: the readable files with a line
\* that contains the pattern, each with those lines in file order.
C34_KeysAndNumbers ==
    C34_Searched =>
        /\ DOMAIN fn_ret[1] = C34_Keys
        /\ \A f \in C34_Keys :
              /\ {fn_ret[1][f][k].line_number : k \in 1..Len(fn_ret[1][f])} = C34_MatchingLines(f)
              /\ Len(fn_ret[1][f]) = Cardinality(C34_MatchingLines(f))
              /\ \A k \in 1..(Len(fn_ret[1][f]) - 1) :
                    fn_ret[1][f][k].line_number < fn_ret[1][f][k + 1].line_number

\* C34: search_in_files returns a mapping whose keys are exactly the readable
\* matching files with at least one line that has the pattern as a substring,
\* each mapped to all such lines in file order, with 1-based line numbers and
\* the line's trailing newline stripped; an unreadable file is skipped without
\* affecting the others.
C34_SearchResult ==
    /\ C34_KeysAndNumbers
    /\ C34_Searched =>
          \A f \in C34_Keys : \A k \in 1..Len(fn_ret[1][f]) :
              fn_ret[1][f][k].content = C34_Stripped(fn_args.files[f].lines[fn_ret[1][f][k].line_number])

\* The case of C34: a line that ends with a blank before its newline.
C34_Witness ==
    /\ C34_Searched
    /\ fn_args.pattern = <<"a", " ">>
    /\ fn_args.files["one.py"] = Readable(<< <<"a", " ", "\n">> >>)
    /\ fn_ret[1]["one.py"] = << [line_number |-> 1, content |-> <<"a">>] >>

\* ---- the handler of a connection is cancelled ----
\* The task that runs websocket_messaging_endpoint is cancelled while it is
\* suspended at an await (the server shuts down): asyncio.CancelledError is a
\* BaseException, neither `except WebSocketDisconnect` nor `except Exception`
\* catches it, and the handler has no `finally`; it leaves through
\* `async with async_session()` with the manager untouched.
ConnCancelled(c) ==
    /\ ConnsFrame
    /\ conn_pc[c] \in {"receive", "turn"}
    /\ conn_pc' = [conn_pc EXCEPT ![c] = "cancelled"]
    /\ UNCHANGED <<active_connections, conn_turn, conn_sent, registry, procs, next_pid>>

HandlesNext ==
    \/ ConnsNext
    \/ \E c \in Conns : ConnCancelled(c)

SpecHandles == ConnsInit /\ [][HandlesNext]_vars

\* ---- C35 ----
C35_Terminated(c) == conn_pc[c] \in {"closed", "disconnected", "cancelled"}

\* connect registers, disconnect removes: while a handler runs past its
\* connect, its handle is in the map, and before the connect it is not.
C35_RegisteredWhileRunning ==
    \A c \in Conns :
        /\ conn_pc[c] \in {"receive", "turn"} => c \in active_connections
        /\ conn_pc[c] = "accept" => c \notin active_connections

\* C35: the map holds exactly the handles connected and not yet disconnected;
\* whenever the handler of a connection has terminated, by disconnect, by an
\* uncaught exception or by cancellation, its handle is no longer in the map.
C35_MapIsLiveHandles ==
    /\ C35_RegisteredWhileRunning
    /\ \A c \in Conns : C35_Terminated(c) => c \notin active_connections

\* ---- C36 ----
\* C36: when two stop_background_process(id) calls for the same registered id
\* interleave at their awaits, both having passed the registry lookup before
\* either removes the entry, both complete without a registry key error, and
\* the registry has no entry for id afterwards (until a start stores one).
C36_Restarted(id) == \E c \in Callers : call_pc[c] = "start_sleep" /\ call_id[c] = id

C36_Removed == 
    (call_res.op = "stop" /\ call_res.raised = "none") =>
        registry[call_res.id] = 0 \/ C36_Restarted(call_res.id)

C36_InterleavedStopsComplete ==
    /\ C36_Removed
    /\ call_res.op = "stop" => call_res.raised # "KeyError"

\* ---- C37 ----
\* C37: every child launched by start_background_process that is still alive
\* is reachable through the registry under its process_id until it is
\* stopped; a start never replaces or drops the entry of a live process, not
\* for a process_id that is already registered and not when starts interleave
\* during the post-launch wait.
C37_LiveChildrenRegistered ==
    \A pid \in Pids : procs[pid] = "running" => \E id \in ProcIds : registry[id] = pid

\* ---- C38 ----
\* An AGENT row as StartAgent inserts it: empty content, no parts payload.
C38_Unfinalized(row) == row.role = "AGENT" /\ row.content = "" /\ ~row.parts.present

\* C38: the history loaded for a turn never contains an unfinalized AGENT row;
\* the placeholder that a failed or disconnected earlier turn of the
\* conversation left behind is not decoded into the agent's input.
C38_NoPlaceholderInHistory ==
    pc = "start_agent" =>
        Len(message_history) = Len(SelectSeq(C30_Prior, LAMBDA m : ~C38_Unfinalized(m)))

====
